---- MODULE Spec2Model ----
(***************************************************************************)
(* Verification model of the editor core: the piece-tree structural diff   *)
(* (crates/fresh-editor/src/model/piece_tree_diff.rs) and the event log    *)
(* path of the editor (src/editor/input.rs), the cursor collection        *)
(* (src/cursor.rs), layout navigation (src/navigation/layout_nav.rs), the   *)
(* position history (src/position_history.rs), the server's input parser  *)
(* and handshake (crates/fresh-editor/src/server/input_parser.rs,          *)
(* runner.rs, protocol.rs), the workspace file name encoding               *)
(* (crates/fresh-editor/src/workspace.rs) and the goto-line prompt         *)
(* (src/editor/input.rs).                                                  *)
(*                                                                         *)
(* Tree nodes live in a heap (a sequence of node records); a node id is    *)
(* its index, so Arc::ptr_eq is equality of ids while two nodes with equal *)
(* fields and different ids are distinct Arcs.                             *)
(***************************************************************************)
EXTENDS Integers, Sequences, FiniteSets, TLC

VARIABLES heap, before, after, lazy, edits, lastOp, result,
          text, cursor, log, logIdx, lastCall,
          cursors, curCall,
          layout, viewCursor, viewport, navCall,
          hist, histCall,
          parser, parserIO, parserCall,
          wsCall,
          server, srvCall,
          gotoDoc, gotoCall

vars == <<heap, before, after, lazy, edits, lastOp, result,
          text, cursor, log, logIdx, lastCall,
          cursors, curCall,
          layout, viewCursor, viewport, navCall,
          hist, histCall,
          parser, parserIO, parserCall,
          wsCall,
          server, srvCall,
          gotoDoc, gotoCall>>

diffVars == <<heap, before, after, lazy, edits, lastOp, result>>
logVars == <<text, cursor, log, logIdx, lastCall>>
curVars == <<cursors, curCall>>
navVars == <<layout, viewCursor, viewport, navCall>>
histVars == <<hist, histCall>>
parserVars == <<parser, parserIO, parserCall>>
wsVars == <<wsCall>>
srvVars == <<server, srvCall>>
gotoVars == <<gotoDoc, gotoCall>>

\* Option::None of an Option<usize>.
NoneV == -1

\* ------------------------------------------------------------------------
\* Bounds of the model.
\* ------------------------------------------------------------------------
\* Number of tree edits (insert / delete / rebalance) in one behaviour.
MaxEdits == 2
\* Longest piece handed to insert.
MaxPiece == 2

Min(a, b) == IF a < b THEN a ELSE b
Max(a, b) == IF a > b THEN a ELSE b
\* usize::saturating_sub
SatSub(a, b) == IF a > b THEN a - b ELSE 0
\* Option addition: (Some(a), Some(b)) => Some(a + b), _ => None
OptAdd(a, b) == IF a = NoneV \/ b = NoneV THEN NoneV ELSE a + b

\* ------------------------------------------------------------------------
\* The buffer pool: immutable chunks named by a BufferLocation.
\* "LF" is the line-feed byte.
\* ------------------------------------------------------------------------
Buffers ==
    [ S0 |-> <<"a", "LF", "b", "LF">>,
      A1 |-> <<"c", "LF", "d">>,
      A2 |-> <<"LF", "e">> ]

Locations == DOMAIN Buffers

RECURSIVE CountLF(_, _, _)
\* Line feeds in buffer loc, bytes [off, off + n).
CountLF(loc, off, n) ==
    IF n = 0 THEN 0
    ELSE (IF Buffers[loc][off + 1] = "LF" THEN 1 ELSE 0) + CountLF(loc, off + 1, n - 1)

\* ------------------------------------------------------------------------
\* PieceTreeNode and LeafData.
\* ------------------------------------------------------------------------
LeafData(loc, off, n, lf) ==
    [location |-> loc, offset |-> off, bytes |-> n, line_feed_cnt |-> lf]

LeafNode(l) ==
    [kind |-> "Leaf", location |-> l.location, offset |-> l.offset, bytes |-> l.bytes,
     line_feed_cnt |-> l.line_feed_cnt, left_bytes |-> 0, lf_left |-> NoneV,
     left |-> 0, right |-> 0]

InternalNode(lb, lfl, l, r) ==
    [kind |-> "Internal", location |-> "S0", offset |-> 0, bytes |-> 0,
     line_feed_cnt |-> NoneV, left_bytes |-> lb, lf_left |-> lfl,
     left |-> l, right |-> r]

IsLeaf(h, id) == h[id].kind = "Leaf"

LeafOf(h, id) ==
    LeafData(h[id].location, h[id].offset, h[id].bytes, h[id].line_feed_cnt)

\* The line-feed count a leaf carries: unknown for chunks of the lazily
\* loaded original file, exact otherwise.
KnownLF(lz, loc, off, n) ==
    IF lz /\ loc = "S0" THEN NoneV ELSE CountLF(loc, off, n)

Piece(lz, loc, off, n) == LeafData(loc, off, n, KnownLF(lz, loc, off, n))

RECURSIVE SumBytes(_)
SumBytes(leaves) ==
    IF leaves = <<>> THEN 0 ELSE Head(leaves).bytes + SumBytes(Tail(leaves))

RECURSIVE SumLF(_)
\* try_fold over line_feed_cnt: None as soon as one count is unknown.
SumLF(leaves) ==
    IF leaves = <<>> THEN 0
    ELSE OptAdd(Head(leaves).line_feed_cnt, SumLF(Tail(leaves)))

RECURSIVE Leaves(_, _)
\* In-order leaves of the subtree rooted at id.
Leaves(h, id) ==
    IF IsLeaf(h, id) THEN <<LeafOf(h, id)>>
    ELSE Leaves(h, h[id].left) \o Leaves(h, h[id].right)

node_bytes_left_only(h, id) ==
    IF IsLeaf(h, id) THEN h[id].bytes ELSE h[id].left_bytes

RECURSIVE node_bytes(_, _)
node_bytes(h, id) ==
    IF IsLeaf(h, id) THEN h[id].bytes
    ELSE h[id].left_bytes + node_bytes(h, h[id].right)

RECURSIVE node_line_feeds(_, _)
node_line_feeds(h, id) ==
    IF IsLeaf(h, id) THEN h[id].line_feed_cnt
    ELSE IF h[id].lf_left = NoneV THEN NoneV
         ELSE LET right_lf == node_line_feeds(h, h[id].right)
              IN IF right_lf = NoneV THEN NoneV ELSE h[id].lf_left + right_lf

\* Arc::new: the new node gets a fresh identity.
Alloc(h, node) == [heap |-> Append(h, node), root |-> Len(h) + 1]

EmptyLeaf == LeafData("S0", 0, 0, 0)

RECURSIVE build(_, _)
\* Balanced builder: every node is freshly allocated.
build(h, leaves) ==
    IF leaves = <<>> THEN Alloc(h, LeafNode(EmptyLeaf))
    ELSE IF Len(leaves) = 1 THEN Alloc(h, LeafNode(leaves[1]))
    ELSE LET mid == Len(leaves) \div 2
             lo == SubSeq(leaves, 1, mid)
             l == build(h, lo)
             r == build(l.heap, SubSeq(leaves, mid + 1, Len(leaves)))
         IN Alloc(r.heap, InternalNode(SumBytes(lo), SumLF(lo), l.root, r.root))

\* ------------------------------------------------------------------------
\* PieceTree edits (path copy).
\* ------------------------------------------------------------------------
RECURSIVE InsertRec(_, _, _, _, _, _)
\* Insert piece at offset p of the subtree id. Only the nodes on the path
\* to the touched leaf are reallocated; every other subtree keeps its id.
\* tie chooses the side when p falls exactly between two children.
InsertRec(h, id, p, piece, tie, lz) ==
    IF IsLeaf(h, id) THEN
        LET l == LeafOf(h, id) IN
        IF l.bytes = 0 THEN Alloc(h, LeafNode(piece))
        ELSE IF p = 0 THEN
            LET n == Alloc(h, LeafNode(piece))
            IN Alloc(n.heap, InternalNode(piece.bytes, piece.line_feed_cnt, n.root, id))
        ELSE IF p >= l.bytes THEN
            LET n == Alloc(h, LeafNode(piece))
            IN Alloc(n.heap, InternalNode(l.bytes, l.line_feed_cnt, id, n.root))
        ELSE
            LET pre == Piece(lz, l.location, l.offset, p)
                suf == Piece(lz, l.location, l.offset + p, l.bytes - p)
                a == Alloc(h, LeafNode(pre))
                b == Alloc(a.heap, LeafNode(piece))
                c == Alloc(b.heap, LeafNode(suf))
                d == Alloc(c.heap, InternalNode(piece.bytes, piece.line_feed_cnt,
                                                b.root, c.root))
            IN Alloc(d.heap, InternalNode(pre.bytes, pre.line_feed_cnt, a.root, d.root))
    ELSE
        LET lb == h[id].left_bytes IN
        IF p < lb \/ (p = lb /\ tie = "L") THEN
            LET l == InsertRec(h, h[id].left, p, piece, tie, lz)
            IN Alloc(l.heap, InternalNode(lb + piece.bytes,
                                          OptAdd(h[id].lf_left, piece.line_feed_cnt),
                                          l.root, h[id].right))
        ELSE
            LET r == InsertRec(h, h[id].right, p - lb, piece, tie, lz)
            IN Alloc(r.heap, InternalNode(lb, h[id].lf_left, h[id].left, r.root))

RECURSIVE DeleteRec(_, _, _, _, _)
\* Delete bytes [s, e) of the subtree id (s < e, clipped to the subtree).
\* root = 0 means the subtree became empty; an untouched subtree keeps its id.
DeleteRec(h, id, s, e, lz) ==
    IF IsLeaf(h, id) THEN
        LET l == LeafOf(h, id)
            cs == Max(s, 0)
            ce == Min(e, l.bytes)
        IN IF cs >= ce THEN [heap |-> h, root |-> id]
           ELSE IF cs = 0 /\ ce = l.bytes THEN [heap |-> h, root |-> 0]
           ELSE IF cs = 0 THEN
               Alloc(h, LeafNode(Piece(lz, l.location, l.offset + ce, l.bytes - ce)))
           ELSE IF ce = l.bytes THEN
               Alloc(h, LeafNode(Piece(lz, l.location, l.offset, cs)))
           ELSE
               LET pre == Piece(lz, l.location, l.offset, cs)
                   suf == Piece(lz, l.location, l.offset + ce, l.bytes - ce)
                   a == Alloc(h, LeafNode(pre))
                   b == Alloc(a.heap, LeafNode(suf))
               IN Alloc(b.heap, InternalNode(pre.bytes, pre.line_feed_cnt, a.root, b.root))
    ELSE
        LET lb == h[id].left_bytes
            l == IF s < lb THEN DeleteRec(h, h[id].left, s, Min(e, lb), lz)
                 ELSE [heap |-> h, root |-> h[id].left]
            r == IF e > lb THEN DeleteRec(l.heap, h[id].right, Max(s - lb, 0), e - lb, lz)
                 ELSE [heap |-> l.heap, root |-> h[id].right]
        IN IF l.root = 0 THEN r
           ELSE IF r.root = 0 THEN [heap |-> r.heap, root |-> l.root]
           ELSE LET ll == Leaves(r.heap, l.root)
                IN Alloc(r.heap, InternalNode(SumBytes(ll), SumLF(ll), l.root, r.root))

TreeInsert_rebuilds(h, root, p, piece, tie, lz) ==
    LET t == InsertRec(h, root, p, piece, tie, lz)
    IN build(t.heap, Leaves(t.heap, t.root))

\* PieceTree::insert
TreeInsert(h, root, p, piece, tie, lz) == InsertRec(h, root, p, piece, tie, lz)

TreeDelete_inclusive(h, root, s, e, lz) ==
    LET d == DeleteRec(h, root, s, e + 1, lz)
    IN IF d.root = 0 THEN Alloc(d.heap, LeafNode(EmptyLeaf)) ELSE d

\* PieceTree::delete: an emptied document is a single empty leaf.
TreeDelete(h, root, s, e, lz) ==
    LET d == DeleteRec(h, root, s, e, lz)
    IN IF d.root = 0 THEN Alloc(d.heap, LeafNode(EmptyLeaf)) ELSE d

\* PieceTree::rebalance: rebuild from the leaves; no node is shared with
\* any earlier root.
TreeRebalance(h, root) ==
    build(h, SelectSeq(Leaves(h, root), LAMBDA l : l.bytes > 0))

RECURSIVE Materialize(_)
\* The document as a sequence of <<location, buffer offset>> bytes.
Materialize(leaves) ==
    IF leaves = <<>> THEN <<>>
    ELSE LET l == Head(leaves)
         IN [i \in 1..l.bytes |-> <<l.location, l.offset + i - 1>>]
            \o Materialize(Tail(leaves))

Doc(h, root) == Materialize(Leaves(h, root))

\* ------------------------------------------------------------------------
\* piece_tree_diff.rs
\* ------------------------------------------------------------------------
Span(leaf, doc_offset, doc_lf_offset) ==
    [leaf |-> leaf, doc_offset |-> doc_offset, doc_lf_offset |-> doc_lf_offset]

Range(s, e) == [start |-> s, end |-> e]

\* Option<Vec<Range>>
NoRanges == [some |-> FALSE, v |-> <<>>]
SomeRanges(v) == [some |-> TRUE, v |-> v]

RECURSIVE collect_leaves_with_offsets(_, _, _)
\* st = [out, nodes_visited, doc_offset, doc_lf]
collect_leaves_with_offsets(h, node, st) ==
    LET st1 == [st EXCEPT !.nodes_visited = @ + 1] IN
    IF ~IsLeaf(h, node) THEN
        collect_leaves_with_offsets(h, h[node].right,
            collect_leaves_with_offsets(h, h[node].left, st1))
    ELSE
        LET leaf == LeafOf(h, node)
        IN [out |-> Append(st1.out,
                       Span(leaf, st1.doc_offset,
                            IF st1.doc_lf = NoneV THEN 0 ELSE st1.doc_lf)),
            nodes_visited |-> st1.nodes_visited,
            doc_offset |-> st1.doc_offset + leaf.bytes,
            doc_lf |-> OptAdd(st1.doc_lf, leaf.line_feed_cnt)]

RECURSIVE diff_collect_leaves_enters_shared(_, _, _, _)
\* diff_collect_leaves counting the nodes inside identical subtrees too.
diff_collect_leaves_enters_shared(h, b, a, acc) ==
    LET acc1 == [acc EXCEPT !.nodes_visited = @ + 2] IN
    IF b = a THEN
        LET bytes == node_bytes(h, b)
            inside == collect_leaves_with_offsets(h, b,
                          [out |-> <<>>, nodes_visited |-> 0,
                           doc_offset |-> 0, doc_lf |-> 0]).nodes_visited - 1
        IN [acc1 EXCEPT !.nodes_visited = @ + 2 * inside,
                        !.before_doc_offset = @ + bytes,
                        !.after_doc_offset = @ + bytes,
                        !.after_doc_lf = OptAdd(@, node_line_feeds(h, a))]
    ELSE IF ~IsLeaf(h, b) /\ ~IsLeaf(h, a) THEN
        diff_collect_leaves_enters_shared(h, h[b].right, h[a].right,
            diff_collect_leaves_enters_shared(h, h[b].left, h[a].left, acc1))
    ELSE
        LET bs == collect_leaves_with_offsets(h, b,
                      [out |-> acc1.before_out, nodes_visited |-> acc1.nodes_visited,
                       doc_offset |-> acc1.before_doc_offset, doc_lf |-> 0])
            as == collect_leaves_with_offsets(h, a,
                      [out |-> acc1.after_out, nodes_visited |-> bs.nodes_visited,
                       doc_offset |-> acc1.after_doc_offset, doc_lf |-> acc1.after_doc_lf])
        IN [before_out |-> bs.out, after_out |-> as.out,
            nodes_visited |-> as.nodes_visited,
            before_doc_offset |-> bs.doc_offset,
            after_doc_offset |-> as.doc_offset,
            after_doc_lf |-> as.doc_lf]

RECURSIVE diff_collect_leaves(_, _, _, _)
\* acc = [before_out, after_out, nodes_visited, before_doc_offset,
\*        after_doc_offset, after_doc_lf]
diff_collect_leaves(h, b, a, acc) ==
    LET acc1 == [acc EXCEPT !.nodes_visited = @ + 2] IN
    IF b = a THEN
        LET bytes == node_bytes(h, b)
        IN [acc1 EXCEPT !.before_doc_offset = @ + bytes,
                        !.after_doc_offset = @ + bytes,
                        !.after_doc_lf = OptAdd(@, node_line_feeds(h, a))]
    ELSE IF ~IsLeaf(h, b) /\ ~IsLeaf(h, a) THEN
        diff_collect_leaves(h, h[b].right, h[a].right,
            diff_collect_leaves(h, h[b].left, h[a].left, acc1))
    ELSE
        LET bs == collect_leaves_with_offsets(h, b,
                      [out |-> acc1.before_out, nodes_visited |-> acc1.nodes_visited,
                       doc_offset |-> acc1.before_doc_offset, doc_lf |-> 0])
            as == collect_leaves_with_offsets(h, a,
                      [out |-> acc1.after_out, nodes_visited |-> bs.nodes_visited,
                       doc_offset |-> acc1.after_doc_offset, doc_lf |-> acc1.after_doc_lf])
        IN [before_out |-> bs.out, after_out |-> as.out,
            nodes_visited |-> as.nodes_visited,
            before_doc_offset |-> bs.doc_offset,
            after_doc_offset |-> as.doc_offset,
            after_doc_lf |-> as.doc_lf]

spans_equal(a, b) ==
    /\ a.leaf.location = b.leaf.location
    /\ a.leaf.offset = b.leaf.offset
    /\ a.leaf.bytes = b.leaf.bytes

span_slices_equal(a, b) ==
    /\ Len(a) = Len(b)
    /\ \A i \in 1..Len(a) : spans_equal(a[i], b[i])

\* The test of normalize_spans for merging span into current.
contiguous_same_offset(current, span) ==
    /\ current.leaf.location = span.leaf.location
    /\ current.leaf.offset + current.leaf.bytes = span.leaf.offset
    /\ current.doc_offset = span.doc_offset

contiguous(current, span) ==
    /\ current.leaf.location = span.leaf.location
    /\ current.leaf.offset + current.leaf.bytes = span.leaf.offset
    /\ current.doc_offset + current.leaf.bytes = span.doc_offset

RECURSIVE NormalizeLoop(_, _, _)
NormalizeLoop(rest, current, normalized) ==
    IF rest = <<>> THEN Append(normalized, current)
    ELSE LET span == Head(rest) IN
         IF contiguous(current, span) THEN
             NormalizeLoop(Tail(rest),
                 [current EXCEPT !.leaf.bytes = @ + span.leaf.bytes,
                                 !.leaf.line_feed_cnt = OptAdd(@, span.leaf.line_feed_cnt)],
                 normalized)
         ELSE NormalizeLoop(Tail(rest), span, Append(normalized, current))

normalize_spans(spans) ==
    IF spans = <<>> THEN spans ELSE NormalizeLoop(Tail(spans), Head(spans), <<>>)

\* A prefix match that compares document positions only.
prefix_match_by_position(b_span, a_span, b_off, a_off) ==
    b_span.doc_offset + b_off = a_span.doc_offset + a_off

\* The match test of common_prefix_bytes: same buffer position and same
\* document position.
prefix_match(b_span, a_span, b_off, a_off) ==
    /\ b_span.leaf.location = a_span.leaf.location
    /\ b_span.leaf.offset + b_off = a_span.leaf.offset + a_off
    /\ b_span.doc_offset + b_off = a_span.doc_offset + a_off

RECURSIVE PrefixLoop(_, _, _, _, _, _, _)
PrefixLoop(bf, af, b_idx, a_idx, b_off, a_off, consumed) ==
    IF ~(b_idx < Len(bf) /\ a_idx < Len(af)) THEN consumed
    ELSE LET b_span == bf[b_idx + 1]
             a_span == af[a_idx + 1]
         IN IF prefix_match(b_span, a_span, b_off, a_off) THEN
                LET take == Min(b_span.leaf.bytes - b_off, a_span.leaf.bytes - a_off)
                    bdone == b_off + take = b_span.leaf.bytes
                    adone == a_off + take = a_span.leaf.bytes
                IN PrefixLoop(bf, af,
                       IF bdone THEN b_idx + 1 ELSE b_idx,
                       IF adone THEN a_idx + 1 ELSE a_idx,
                       IF bdone THEN 0 ELSE b_off + take,
                       IF adone THEN 0 ELSE a_off + take,
                       consumed + take)
            ELSE consumed

common_prefix_bytes(bf, af) == PrefixLoop(bf, af, 0, 0, 0, 0, 0)

\* Document offset just past the last collected span (0 when there is none).
RECURSIVE SpansEnd_relative(_)
SpansEnd_relative(spans) ==
    IF spans = <<>> THEN 0
    ELSE SpansEnd_relative(SubSeq(spans, 1, Len(spans) - 1)) + spans[Len(spans)].leaf.bytes

SpansEnd(spans) ==
    IF spans = <<>> THEN 0
    ELSE spans[Len(spans)].doc_offset + spans[Len(spans)].leaf.bytes

\* The match test of the suffix walk: buffer identity only (location and
\* buffer position); document offsets are deliberately not compared.
suffix_match(b_span, a_span, b_off, a_off) ==
    /\ b_span.leaf.location = a_span.leaf.location
    /\ b_span.leaf.offset + b_span.leaf.bytes - b_off
           = a_span.leaf.offset + a_span.leaf.bytes - a_off

RECURSIVE SuffixLoop(_, _, _, _, _, _, _, _)
SuffixLoop(bf, af, prefix_bytes, b_idx, a_idx, b_off, a_off, consumed) ==
    IF ~(/\ b_idx >= 0
         /\ a_idx >= 0
         /\ SpansEnd(bf) - consumed > prefix_bytes
         /\ SpansEnd(af) - consumed > prefix_bytes) THEN consumed
    ELSE LET b_span == bf[b_idx + 1]
             a_span == af[a_idx + 1]
             b_leaf == b_span.leaf
             a_leaf == a_span.leaf
         IN IF suffix_match(b_span, a_span, b_off, a_off) THEN
                LET take == Min(b_leaf.bytes - b_off, a_leaf.bytes - a_off)
                    bdone == b_off + take = b_leaf.bytes
                    adone == a_off + take = a_leaf.bytes
                IN SuffixLoop(bf, af, prefix_bytes,
                       IF bdone THEN b_idx - 1 ELSE b_idx,
                       IF adone THEN a_idx - 1 ELSE a_idx,
                       IF bdone THEN 0 ELSE b_off + take,
                       IF adone THEN 0 ELSE a_off + take,
                       consumed + take)
            ELSE consumed

\* The cap applied to the suffix so that it does not overlap the prefix.
suffix_cap(consumed, total_after, prefix_bytes) ==
    Min(consumed, SatSub(total_after, prefix_bytes))

common_suffix_bytes(bf, af, prefix_bytes) ==
    suffix_cap(SuffixLoop(bf, af, prefix_bytes, Len(bf) - 1, Len(af) - 1, 0, 0, 0),
               SpansEnd(af), prefix_bytes)

RECURSIVE SkipPrefixLoop(_, _, _, _)
\* First loop of collect_diff_ranges; st = [matched, b_idx, a_idx, b_off, a_off].
SkipPrefixLoop(bf, af, prefix, st) ==
    LET matched == st.matched IN
    IF ~(matched < prefix /\ st.b_idx < Len(bf) /\ st.a_idx < Len(af)) THEN st
    ELSE LET b == bf[st.b_idx + 1].leaf
             a == af[st.a_idx + 1].leaf
             take == Min(Min(b.bytes - st.b_off, a.bytes - st.a_off), prefix - matched)
             bdone == st.b_off + take = b.bytes
             adone == st.a_off + take = a.bytes
         IN SkipPrefixLoop(bf, af, prefix,
                [matched |-> matched + take,
                 b_idx |-> IF bdone THEN st.b_idx + 1 ELSE st.b_idx,
                 a_idx |-> IF adone THEN st.a_idx + 1 ELSE st.a_idx,
                 b_off |-> IF bdone THEN 0 ELSE st.b_off + take,
                 a_off |-> IF adone THEN 0 ELSE st.a_off + take])

\* The match test of the changed-range scan: buffer identity only.
scan_match(bf, a, b_idx, b_off, a_off) ==
    IF b_idx < Len(bf) THEN
        LET b == bf[b_idx + 1].leaf
        IN b.location = a.leaf.location /\ b.offset + b_off = a.leaf.offset + a_off
    ELSE FALSE

anchor_range_relative(doc_start, prefix, compare_limit) == Range(prefix, compare_limit)

\* The anchor as a zero-width range at the start of the collected spans.
anchor_range_at_doc_start(doc_start, prefix, compare_limit) == Range(doc_start, doc_start)

\* The range pushed when the scan produced nothing.
anchor_range(doc_start, prefix, compare_limit) == Range(doc_start + prefix, compare_limit)

RECURSIVE ScanLoop(_, _, _, _)
\* Main loop; st = [ranges, b_idx, a_idx, b_off, a_off, current_start, current_end].
ScanLoop(bf, af, compare_limit, st) ==
    IF ~(st.a_idx < Len(af)) THEN st
    ELSE
    LET a == af[st.a_idx + 1]
        pos == a.doc_offset + st.a_off
    IN IF pos >= compare_limit THEN st
       ELSE
       LET gap == st.current_start # NoneV /\ pos > st.current_end
           st1 == IF gap
                  THEN [st EXCEPT !.ranges = Append(@, Range(st.current_start, st.current_end)),
                                  !.current_start = NoneV]
                  ELSE st
       IN IF scan_match(bf, a, st1.b_idx, st1.b_off, st1.a_off) THEN
              LET st2 == IF st1.current_start # NoneV
                         THEN [st1 EXCEPT !.ranges = Append(@, Range(st1.current_start,
                                                                     st1.current_end)),
                                          !.current_start = NoneV]
                         ELSE st1
                  b == bf[st2.b_idx + 1].leaf
                  take == Min(Min(b.bytes - st2.b_off, a.leaf.bytes - st2.a_off),
                              SatSub(compare_limit, pos))
                  bdone == st2.b_off + take = b.bytes
                  adone == st2.a_off + take = a.leaf.bytes
              IN ScanLoop(bf, af, compare_limit,
                     [st2 EXCEPT !.b_idx = IF bdone THEN @ + 1 ELSE @,
                                 !.a_idx = IF adone THEN @ + 1 ELSE @,
                                 !.b_off = IF bdone THEN 0 ELSE @ + take,
                                 !.a_off = IF adone THEN 0 ELSE @ + take])
          ELSE
              LET take == Min(a.leaf.bytes - st1.a_off, SatSub(compare_limit, pos))
                  adone == st1.a_off + take = a.leaf.bytes
              IN ScanLoop(bf, af, compare_limit,
                     [st1 EXCEPT !.current_start = IF @ = NoneV THEN pos ELSE @,
                                 !.current_end = pos + take,
                                 !.a_idx = IF adone THEN @ + 1 ELSE @,
                                 !.a_off = IF adone THEN 0 ELSE @ + take])

RECURSIVE TrailingLoop(_, _, _)
\* Trailing unmatched "after" spans up to the suffix boundary.
TrailingLoop(af, compare_limit, st) ==
    IF ~(st.a_idx < Len(af)) THEN st
    ELSE LET a == af[st.a_idx + 1]
             start == a.doc_offset + st.a_off
         IN IF start >= compare_limit THEN st
            ELSE TrailingLoop(af, compare_limit,
                     [st EXCEPT !.ranges = Append(@, Range(start,
                                               Min(a.doc_offset + a.leaf.bytes, compare_limit))),
                                !.a_idx = @ + 1,
                                !.a_off = 0])

\* The ranges collect_diff_ranges holds after its loops, before the anchor
\* range is considered.
scanned_ranges(bf, af, prefix, suffix) ==
    LET sk == SkipPrefixLoop(bf, af, prefix,
                  [matched |-> 0, b_idx |-> 0, a_idx |-> 0, b_off |-> 0, a_off |-> 0])
        compare_limit == SatSub(SpansEnd(af), suffix)
        sc == ScanLoop(bf, af, compare_limit,
                  [ranges |-> <<>>, b_idx |-> sk.b_idx, a_idx |-> sk.a_idx,
                   b_off |-> sk.b_off, a_off |-> sk.a_off,
                   current_start |-> NoneV, current_end |-> 0])
        sc1 == IF sc.current_start # NoneV
               THEN [sc EXCEPT !.ranges = Append(@, Range(sc.current_start, sc.current_end))]
               ELSE sc
    IN TrailingLoop(af, compare_limit, sc1).ranges

collect_diff_ranges(bf, af, prefix, suffix) ==
    LET doc_end == SpansEnd(af)
        compare_limit == SatSub(doc_end, suffix)
        doc_start == IF af = <<>> THEN 0 ELSE af[1].doc_offset
        ranges == scanned_ranges(bf, af, prefix, suffix)
    IN IF ranges = <<>>
       THEN <<anchor_range(doc_start, prefix, compare_limit)>>
       ELSE ranges

\* The line counters handed to the diff.
\*   "leaf":  count_line_feeds of the tests - exact only for a whole leaf.
\*   "exact": counts the line feeds of the slice in the buffer; None when
\*            the leaf's chunk is not scanned.
count_line_feeds(leaf, start, len) ==
    IF len = 0 THEN 0
    ELSE IF start = 0 /\ len = leaf.bytes THEN leaf.line_feed_cnt
    ELSE NoneV

exact_line_counter(leaf, start, len) ==
    IF len = 0 THEN 0
    ELSE IF leaf.line_feed_cnt = NoneV THEN NoneV
    ELSE CountLF(leaf.location, leaf.offset + start, len)

line_counter(mode, leaf, start, len) ==
    IF mode = "leaf" THEN count_line_feeds(leaf, start, len)
    ELSE exact_line_counter(leaf, start, len)

CounterModes == {"leaf", "exact"}

RECURSIVE CountLinesLoop(_, _, _, _, _, _)
CountLinesLoop(spans, i, start, end, mode, line_feeds) ==
    IF i > Len(spans) THEN line_feeds
    ELSE LET span == spans[i]
             span_start == span.doc_offset
             span_end == span_start + span.leaf.bytes
         IN IF end <= span_start THEN line_feeds
            ELSE IF start >= span_end
                 THEN CountLinesLoop(spans, i + 1, start, end, mode, line_feeds)
            ELSE LET overlap_start == Max(start, span_start)
                     overlap_end == Min(end, span_end)
                     chunk_lines == line_counter(mode, span.leaf,
                                                 overlap_start - span_start,
                                                 overlap_end - overlap_start)
                 IN IF chunk_lines = NoneV THEN NoneV
                    ELSE CountLinesLoop(spans, i + 1, start, end, mode,
                                        line_feeds + chunk_lines)

count_lines_in_range(spans, start, end, mode) ==
    IF start >= end THEN 0 ELSE CountLinesLoop(spans, 1, start, end, mode, 0)

\* The span that line_ranges looks up for a range start (0 when none).
find_span(after_spans, start) ==
    LET hits == {i \in 1..Len(after_spans) :
                    /\ start >= after_spans[i].doc_offset
                    /\ start <= after_spans[i].doc_offset + after_spans[i].leaf.bytes}
    IN IF hits = {} THEN 0 ELSE CHOOSE i \in hits : \A j \in hits : i <= j

\* Line range of one byte range; ok = FALSE is the `?` early return.
NoLine == [ok |-> FALSE, start |-> 0, end |-> 0]

line_range_of(after_spans, range, mode) ==
    LET i == find_span(after_spans, range.start) IN
    IF i = 0 THEN NoLine
    ELSE LET span == after_spans[i]
             offset_into_span == Min(range.start - span.doc_offset, span.leaf.bytes)
             lf_to_range_start == line_counter(mode, span.leaf, 0, offset_into_span)
         IN IF lf_to_range_start = NoneV THEN NoLine
            ELSE LET start_line == span.doc_lf_offset + lf_to_range_start
                     lf_in_range == count_lines_in_range(after_spans, range.start,
                                                         range.end, mode)
                 IN IF lf_in_range = NoneV THEN NoLine
                    ELSE IF range.start = range.end
                         THEN [ok |-> TRUE, start |-> start_line, end |-> start_line + 1]
                         ELSE [ok |-> TRUE, start |-> start_line,
                               end |-> start_line + lf_in_range + 1]

line_ranges(after_spans, byte_ranges, mode) ==
    LET each == [i \in 1..Len(byte_ranges) |->
                    line_range_of(after_spans, byte_ranges[i], mode)]
    IN IF \E i \in 1..Len(byte_ranges) : ~each[i].ok THEN NoRanges
       ELSE SomeRanges([i \in 1..Len(byte_ranges) |-> Range(each[i].start, each[i].end)])

PieceTreeDiff(equal, byte_ranges, lr, nodes_visited) ==
    [equal |-> equal, byte_ranges |-> byte_ranges, line_ranges |-> lr,
     nodes_visited |-> nodes_visited]

\* The structural walk of diff_piece_trees, spans normalized.
CollectedSpans(h, b, a) ==
    LET acc == diff_collect_leaves(h, b, a,
                   [before_out |-> <<>>, after_out |-> <<>>, nodes_visited |-> 0,
                    before_doc_offset |-> 0, after_doc_offset |-> 0, after_doc_lf |-> 0])
    IN [before_spans |-> normalize_spans(acc.before_out),
        after_spans |-> normalize_spans(acc.after_out),
        nodes_visited |-> acc.nodes_visited]

IdenticalRootsDiff_uncounted == PieceTreeDiff(TRUE, <<>>, SomeRanges(<<>>), 0)

\* The result of the fast path taken when both roots are the same node.
IdenticalRootsDiff == PieceTreeDiff(TRUE, <<>>, SomeRanges(<<>>), 1)

diff_piece_trees(h, b, a, mode) ==
    IF b = a THEN IdenticalRootsDiff
    ELSE
    LET c == CollectedSpans(h, b, a) IN
    IF span_slices_equal(c.before_spans, c.after_spans)
    THEN PieceTreeDiff(TRUE, <<>>, SomeRanges(<<>>), c.nodes_visited)
    ELSE LET prefix == common_prefix_bytes(c.before_spans, c.after_spans)
             suffix == common_suffix_bytes(c.before_spans, c.after_spans, prefix)
             ranges == collect_diff_ranges(c.before_spans, c.after_spans, prefix, suffix)
         IN PieceTreeDiff(FALSE, ranges, line_ranges(c.after_spans, ranges, mode),
                          c.nodes_visited)

\* ------------------------------------------------------------------------
\* The tree state machine: a saved root (before), the current root (after),
\* edits on the current root and the diff between the two.
\* ------------------------------------------------------------------------
NoResult ==
    [done |-> FALSE, mode |-> "leaf", equal |-> FALSE, byte_ranges |-> <<>>,
     line_ranges |-> NoRanges, nodes_visited |-> 0]

\* The last edit: its kind, the root it was applied to (base) and the content
\* of that root then (doc0), the range p..e and the inserted slice (loc, off).
NoOp == [kind |-> "none", base |-> 0, p |-> 0, e |-> 0, loc |-> "S0", off |-> 0, doc0 |-> <<>>]

\* Leaf lists of the initial documents, as <<location, offset, bytes>>.
InitLeafLists ==
    { <<>>,
      << <<"S0", 0, 4>> >>,
      << <<"S0", 0, 2>>, <<"S0", 2, 2>> >>,
      << <<"A1", 0, 1>>, <<"S0", 0, 2>>, <<"A1", 1, 1>>, <<"S0", 2, 2>> >>,
      << <<"S0", 2, 2>>, <<"A1", 0, 2>>, <<"S0", 0, 2>> >> }

PiecesOf(lz, list) == [i \in 1..Len(list) |-> Piece(lz, list[i][1], list[i][2], list[i][3])]

\* Buffer bytes <<location, offset>> a piece refers to.
PieceBytes(loc, off, n) == {<<loc, off + i>> : i \in 0..(n - 1)}

DocLen(h, root) == Len(Doc(h, root))

InitTree ==
    \E list \in InitLeafLists, lz \in BOOLEAN :
        LET t == build(<<>>, PiecesOf(lz, list))
        IN /\ heap = t.heap
           /\ before = t.root
           /\ after = t.root
           /\ lazy = lz
           /\ edits = 0
           /\ lastOp = NoOp
           /\ result = NoResult

\* Buffer bytes some node ever allocated refers to.
UsedBytes(h) ==
    UNION {PieceBytes(h[i].location, h[i].offset, h[i].bytes) :
               i \in {j \in 1..Len(h) : h[j].kind = "Leaf"}}

\* PieceTree::insert of freshly added bytes: a slice of the pool that no
\* tree has referred to so far (buffers are append-only, an insert never
\* reuses bytes).
Insert(p, loc, off, n, tie) ==
    /\ edits < MaxEdits
    /\ off + n <= Len(Buffers[loc])
    /\ p <= DocLen(heap, after)
    /\ PieceBytes(loc, off, n) \cap UsedBytes(heap) = {}
    /\ LET t == TreeInsert(heap, after, p, Piece(lazy, loc, off, n), tie, lazy)
       IN /\ heap' = t.heap
          /\ after' = t.root
    /\ lastOp' = [kind |-> "insert", base |-> after, p |-> p, e |-> p + n,
                  loc |-> loc, off |-> off, doc0 |-> Doc(heap, after)]
    /\ edits' = edits + 1
    /\ result' = NoResult
    /\ UNCHANGED <<before, lazy>>

\* PieceTree::delete of the non-empty range [s, e).
Delete(s, e) ==
    /\ edits < MaxEdits
    /\ s < e
    /\ e <= DocLen(heap, after)
    /\ LET t == TreeDelete(heap, after, s, e, lazy)
       IN /\ heap' = t.heap
          /\ after' = t.root
    /\ lastOp' = [kind |-> "delete", base |-> after, p |-> s, e |-> e,
                  loc |-> "S0", off |-> 0, doc0 |-> Doc(heap, after)]
    /\ edits' = edits + 1
    /\ result' = NoResult
    /\ UNCHANGED <<before, lazy>>

\* PieceTree::rebalance
Rebalance ==
    /\ edits < MaxEdits
    /\ lastOp.kind # "rebalance"
    /\ LET t == TreeRebalance(heap, after)
       IN /\ heap' = t.heap
          /\ after' = t.root
    /\ lastOp' = [kind |-> "rebalance", base |-> after, p |-> 0, e |-> 0,
                  loc |-> "S0", off |-> 0, doc0 |-> Doc(heap, after)]
    /\ edits' = edits + 1
    /\ result' = NoResult
    /\ UNCHANGED <<before, lazy>>

\* The current root becomes the saved root.
MarkSaved ==
    /\ before # after
    /\ before' = after
    /\ lastOp' = NoOp
    /\ result' = NoResult
    /\ UNCHANGED <<heap, after, lazy, edits>>

\* diff_piece_trees(saved root, current root, line counter)
Diff(mode) ==
    /\ ~result.done \/ result.mode # mode
    /\ result' = [done |-> TRUE, mode |-> mode] @@ diff_piece_trees(heap, before, after, mode)
    /\ UNCHANGED <<heap, before, after, lazy, edits, lastOp>>

\* ------------------------------------------------------------------------
\* The event log path: src/editor/input.rs (apply_events, Undo, Redo) with
\* the event log and the event application it calls.
\* text is the buffer content, cursor the primary cursor's source byte.
\* ------------------------------------------------------------------------
\* Longest event log.
MaxLog == 2
\* Longest buffer content.
MaxText == 2

Chars == {"x", "y"}

InsertEvent(position, ch) ==
    [kind |-> "Insert", start |-> position, end |-> position + 1, text |-> <<ch>>,
     old_position |-> 0, new_position |-> 0]

DeleteEvent(s, e, deleted_text) ==
    [kind |-> "Delete", start |-> s, end |-> e, text |-> deleted_text,
     old_position |-> 0, new_position |-> 0]

MoveCursorEvent(old, new) ==
    [kind |-> "MoveCursor", start |-> 0, end |-> 0, text |-> <<>>,
     old_position |-> old, new_position |-> new]

\* Events handed to apply_events, valid or not.
EventPool(c) ==
    {InsertEvent(p, ch) : p \in 0..(MaxText + 1), ch \in Chars}
    \cup {DeleteEvent(p, p + 1, <<ch>>) : p \in 0..MaxText, ch \in Chars}
    \cup {MoveCursorEvent(c, n) : n \in 0..MaxText}

\* Whether the event can be applied to the content t.
EventValid(ev, t) ==
    CASE ev.kind = "Insert" -> ev.start <= Len(t)
      [] ev.kind = "Delete" ->
            /\ ev.start <= ev.end
            /\ ev.end <= Len(t)
            /\ SubSeq(t, ev.start + 1, ev.end) = ev.text
      [] OTHER -> ev.new_position <= Len(t)

Splice(t, s, e, new) == SubSeq(t, 1, s) \o new \o SubSeq(t, e + 1, Len(t))

\* Source byte of a cursor after an edit replaced old_len bytes at edit_pos
\* by new_len bytes.
AdjustCursor(c, edit_pos, old_len, new_len) ==
    IF c < edit_pos THEN c
    ELSE IF c < edit_pos + old_len THEN edit_pos
    ELSE IF c = edit_pos /\ new_len = 0 THEN c
    ELSE c - old_len + new_len

\* EditorState::apply: an event that cannot be applied is rejected before
\* any mutation.
ApplyEvent(ev, t, c) ==
    IF ~EventValid(ev, t) THEN [text |-> t, cursor |-> c]
    ELSE CASE ev.kind = "Insert" ->
                [text |-> Splice(t, ev.start, ev.start, ev.text),
                 cursor |-> AdjustCursor(c, ev.start, 0, Len(ev.text))]
           [] ev.kind = "Delete" ->
                [text |-> Splice(t, ev.start, ev.end, <<>>),
                 cursor |-> AdjustCursor(c, ev.start, ev.end - ev.start, 0)]
           [] OTHER -> [text |-> t, cursor |-> ev.new_position]

apply_event_to_active_buffer(ev, t, c) == ApplyEvent(ev, t, c)

\* Event::inverse
Inverse(ev) ==
    CASE ev.kind = "Insert" -> DeleteEvent(ev.start, ev.end, ev.text)
      [] ev.kind = "Delete" -> [ev EXCEPT !.kind = "Insert"]
      [] OTHER -> MoveCursorEvent(ev.new_position, ev.old_position)

append_keeps_tail(lg, idx, ev) == [log |-> Append(lg, ev), logIdx |-> idx + 1]

\* EventLog::append: push the event, dropping any redo tail.
append(lg, idx, ev) == [log |-> Append(SubSeq(lg, 1, idx), ev), logIdx |-> idx + 1]

\* prev is the call before this one; dropped is the number of undone events
\* the latest append found behind the undo position.
Snapshot(op, valid) ==
    [op |-> op, valid |-> valid, error |-> FALSE,
     text0 |-> text, cursor0 |-> cursor, log0 |-> log, logIdx0 |-> logIdx,
     prev |-> lastCall.op,
     dropped |-> IF op = "apply_events" THEN Len(log) - logIdx ELSE lastCall.dropped]

NoCall ==
    [op |-> "none", valid |-> TRUE, error |-> FALSE,
     text0 |-> <<>>, cursor0 |-> 0, log0 |-> <<>>, logIdx0 |-> 0,
     prev |-> "none", dropped |-> 0]

\* Editor::apply_events with a one-event batch: the event is appended to
\* the log, then applied; nothing is returned to the caller.
apply_events(ev) ==
    /\ logIdx < MaxLog
    /\ EventValid(ev, text) => Len(ApplyEvent(ev, text, cursor).text) <= MaxText
    /\ LET lg == append(log, logIdx, ev)
           st == apply_event_to_active_buffer(ev, text, cursor)
       IN /\ log' = lg.log
          /\ logIdx' = lg.logIdx
          /\ text' = st.text
          /\ cursor' = st.cursor
    /\ lastCall' = Snapshot("apply_events", EventValid(ev, text))

\* Action::Undo: the last applied event is inverted and the inverse applied.
Undo ==
    /\ logIdx > 0
    /\ LET st == ApplyEvent(Inverse(log[logIdx]), text, cursor)
       IN /\ Len(st.text) <= MaxText
          /\ text' = st.text
          /\ cursor' = st.cursor
    /\ logIdx' = logIdx - 1
    /\ lastCall' = Snapshot("undo", EventValid(Inverse(log[logIdx]), text))
    /\ UNCHANGED log

\* Action::Redo: the next undone event is applied again; with nothing
\* undone the call does nothing.
Redo ==
    /\ IF logIdx < Len(log)
       THEN LET st == ApplyEvent(log[logIdx + 1], text, cursor)
            IN /\ Len(st.text) <= MaxText
               /\ text' = st.text
               /\ cursor' = st.cursor
               /\ logIdx' = logIdx + 1
               /\ lastCall' = Snapshot("redo", EventValid(log[logIdx + 1], text))
       ELSE /\ UNCHANGED <<text, cursor, logIdx>>
            /\ lastCall' = Snapshot("redo", TRUE)
    /\ UNCHANGED log

InitLog ==
    /\ text = <<>>
    /\ cursor = 0
    /\ log = <<>>
    /\ logIdx = 0
    /\ lastCall = NoCall

\* ------------------------------------------------------------------------
\* Cursors: src/cursor.rs.  cursors is the Cursors collection, a record
\* [cursors, next_id, primary_id] whose field cursors maps the ids present
\* to their Cursor.
\* ------------------------------------------------------------------------
\* Largest cursor id handed out.
MaxCursorId == 2
\* Number of calls on the collection in one behaviour.
MaxCursorOps == 3

CursorIds == 0..MaxCursorId

ViewPosition(view_line, column, source_byte) ==
    [view_line |-> view_line, column |-> column, source_byte |-> source_byte]

\* Option<ViewPosition>
NoPosition == [some |-> FALSE, v |-> ViewPosition(0, 0, NoneV)]
SomePosition(v) == [some |-> TRUE, v |-> v]

Position2D(line, column) == [line |-> line, column |-> column]

\* Option<Position2D>
NoBlockAnchor == [some |-> FALSE, v |-> Position2D(0, 0)]
SomeBlockAnchor(v) == [some |-> TRUE, v |-> v]

\* Cursor::new
Cursor_new(position) ==
    [position |-> position, anchor |-> NoPosition, selection_mode |-> "Normal",
     block_anchor |-> NoBlockAnchor, deselect_on_move |-> TRUE]

\* Cursor::set_anchor
set_anchor(c, anchor) == [c EXCEPT !.anchor = SomePosition(anchor)]

\* Cursor::start_block_selection
start_block_selection(c, line, column) ==
    [c EXCEPT !.selection_mode = "Block",
              !.block_anchor = SomeBlockAnchor(Position2D(line, column))]

move_to_resets_anchor(c, position, extend_selection) ==
    [c EXCEPT !.anchor = IF extend_selection THEN SomePosition(c.position) ELSE NoPosition,
              !.selection_mode = IF extend_selection THEN @ ELSE "Normal",
              !.block_anchor = IF extend_selection THEN @ ELSE NoBlockAnchor,
              !.position = position]

\* Cursor::move_to
move_to(c, position, extend_selection) ==
    LET c1 == IF extend_selection
              THEN IF ~c.anchor.some THEN [c EXCEPT !.anchor = SomePosition(c.position)]
                   ELSE c
              ELSE LET c0 == [c EXCEPT !.anchor = NoPosition]
                   IN IF ~extend_selection /\ c0.selection_mode = "Block"
                      THEN [c0 EXCEPT !.selection_mode = "Normal",
                                      !.block_anchor = NoBlockAnchor]
                      ELSE c0
    IN [c1 EXCEPT !.position = position]

\* Cursor::adjust_for_edit: the body is empty.
adjust_for_edit(c, edit_pos, old_len, new_len) == c

\* Cursors::new
Cursors_new ==
    [cursors |-> (0 :> Cursor_new(ViewPosition(0, 0, 0))), next_id |-> 1, primary_id |-> 0]

\* Cursors::primary; fails when primary_id is not in the map.
primary(cs) == cs.cursors[cs.primary_id]

add_keeps_primary(cs, c) ==
    [cs EXCEPT !.cursors = (cs.next_id :> c) @@ @, !.next_id = @ + 1]

\* Cursors::add
add(cs, c) ==
    [cursors |-> (cs.next_id :> c) @@ cs.cursors,
     next_id |-> cs.next_id + 1,
     primary_id |-> cs.next_id]

\* insert_with_id leaving next_id as it was.
insert_with_id_keeps_next_id(cs, id, c) ==
    [cursors |-> (id :> c) @@ cs.cursors,
     next_id |-> cs.next_id,
     primary_id |-> id]

\* Cursors::insert_with_id
insert_with_id(cs, id, c) ==
    [cursors |-> (id :> c) @@ cs.cursors,
     next_id |-> Max(cs.next_id, id + 1),
     primary_id |-> id]

\* The map without the key id.
Without(m, id) == [k \in DOMAIN m \ {id} |-> m[k]]

remove_leaves_empty(cs, id, first_id) ==
    LET rest == Without(cs.cursors, id)
    IN IF cs.primary_id = id /\ DOMAIN rest # {}
       THEN [cs EXCEPT !.cursors = rest, !.primary_id = first_id]
       ELSE [cs EXCEPT !.cursors = rest]

\* Cursors::remove.  first_id is the key the HashMap iterator yields first
\* among the remaining cursors; the iteration order is unspecified.
remove(cs, id, first_id) ==
    LET rest == Without(cs.cursors, id)
    IN IF cs.primary_id = id
       THEN IF DOMAIN rest # {}
            THEN [cs EXCEPT !.cursors = rest, !.primary_id = first_id]
            ELSE [cursors |-> (id :> Cursor_new(ViewPosition(0, 0, 0))),
                  next_id |-> id + 1,
                  primary_id |-> id]
       ELSE [cs EXCEPT !.cursors = rest]

\* Cursors::adjust_for_edit
Cursors_adjust_for_edit(cs, edit_pos, old_len, new_len) ==
    [cs EXCEPT !.cursors = [k \in DOMAIN @ |->
                               adjust_for_edit(@[k], edit_pos, old_len, new_len)]]

\* View positions handed to the cursor operations.
Positions == {ViewPosition(0, 0, 0), ViewPosition(0, 1, 1)}

\* Cursors handed to add and insert_with_id: fresh ones and ones with a
\* sticky mark (anchor set, deselect_on_move false).
CursorPool ==
    {Cursor_new(pos) : pos \in Positions}
    \cup {[Cursor_new(pos) EXCEPT !.anchor = SomePosition(a), !.deselect_on_move = FALSE] :
              pos \in Positions, a \in Positions}

\* The call made last, with what it was given and the collection before it.
CurCall(op, id, c, position, extend, edit_pos, old_len, new_len) ==
    [op |-> op, id |-> id, cursor |-> c, position |-> position, extend |-> extend,
     edit_pos |-> edit_pos, old_len |-> old_len, new_len |-> new_len,
     ids0 |-> DOMAIN cursors.cursors, primary0 |-> cursors.primary_id,
     old |-> primary(cursors), n |-> curCall.n + 1]

NoCurCall ==
    [op |-> "none", id |-> 0, cursor |-> Cursor_new(ViewPosition(0, 0, 0)),
     position |-> ViewPosition(0, 0, 0), extend |-> FALSE,
     edit_pos |-> 0, old_len |-> 0, new_len |-> 0,
     ids0 |-> {0}, primary0 |-> 0, old |-> Cursor_new(ViewPosition(0, 0, 0)), n |-> 0]

Quiet(op, id) ==
    CurCall(op, id, Cursor_new(ViewPosition(0, 0, 0)), ViewPosition(0, 0, 0), FALSE, 0, 0, 0)

Add(c) ==
    /\ curCall.n < MaxCursorOps
    /\ cursors.next_id <= MaxCursorId
    /\ cursors' = add(cursors, c)
    /\ curCall' = [Quiet("add", cursors.next_id) EXCEPT !.cursor = c]

InsertWithId(id, c) ==
    /\ curCall.n < MaxCursorOps
    /\ cursors' = insert_with_id(cursors, id, c)
    /\ curCall' = [Quiet("insert_with_id", id) EXCEPT !.cursor = c]

Remove(id, first_id) ==
    /\ curCall.n < MaxCursorOps
    /\ LET rest == DOMAIN cursors.cursors \ {id}
       IN IF cursors.primary_id = id /\ rest # {} THEN first_id \in rest ELSE first_id = id
    /\ cursors' = remove(cursors, id, first_id)
    /\ curCall' = Quiet("remove", id)

\* cursors.primary_mut().move_to(position, extend_selection)
MoveTo(position, extend_selection) ==
    /\ curCall.n < MaxCursorOps
    /\ cursors' = [cursors EXCEPT !.cursors[cursors.primary_id] =
                       move_to(@, position, extend_selection)]
    /\ curCall' = [Quiet("move_to", cursors.primary_id) EXCEPT
                       !.position = position, !.extend = extend_selection]

\* cursors.primary_mut().start_block_selection(line, column)
StartBlockSelection(line, column) ==
    /\ curCall.n < MaxCursorOps
    /\ cursors' = [cursors EXCEPT !.cursors[cursors.primary_id] =
                       start_block_selection(@, line, column)]
    /\ curCall' = Quiet("start_block_selection", cursors.primary_id)

\* cursors.primary_mut().set_anchor(anchor)
SetAnchor(anchor) ==
    /\ curCall.n < MaxCursorOps
    /\ cursors' = [cursors EXCEPT !.cursors[cursors.primary_id] = set_anchor(@, anchor)]
    /\ curCall' = Quiet("set_anchor", cursors.primary_id)

\* cursors.adjust_for_edit(edit_pos, old_len, new_len)
AdjustForEdit(edit_pos, old_len, new_len) ==
    /\ curCall.n < MaxCursorOps
    /\ cursors' = Cursors_adjust_for_edit(cursors, edit_pos, old_len, new_len)
    /\ curCall' = [Quiet("adjust_for_edit", cursors.primary_id) EXCEPT
                       !.edit_pos = edit_pos, !.old_len = old_len, !.new_len = new_len]

InitCursors ==
    /\ cursors = Cursors_new
    /\ curCall = NoCurCall

\* ------------------------------------------------------------------------
\* Layout navigation (src/navigation/layout_nav.rs).  A layout is its view
\* lines, each the sequence of its char_mappings (a source byte or NoneV),
\* and the end of its source range.
\* ------------------------------------------------------------------------
MaxLines == 2
MaxLineLen == 2
MaxCol == 3
MaxVisible == 2

\* Sum of l + 1 over the first idx entries of lens.
RECURSIVE LineOffset(_, _)
LineOffset(lens, idx) ==
    IF idx = 0 THEN 0 ELSE LineOffset(lens, idx - 1) + lens[idx] + 1

\* tests::make_test_layout for single-byte lines of the given lengths: one
\* mapping per character and one for the newline of all but the last line.
make_test_layout(lens) ==
    [lines |-> [i \in 1..Len(lens) |->
                   [k \in 1..(lens[i] + (IF i < Len(lens) THEN 1 ELSE 0)) |->
                       LineOffset(lens, i - 1) + k - 1]],
     source_end |-> IF Len(lens) = 0 THEN 0 ELSE LineOffset(lens, Len(lens)) - 1]

\* Layout::view_position_to_source_byte.
view_position_to_source_byte(l, view_line, column) ==
    IF view_line >= Len(l.lines) THEN NoneV
    ELSE LET m == l.lines[view_line + 1]
         IN IF column < Len(m) THEN m[column + 1]
            ELSE IF column > Len(m) THEN NoneV
            ELSE LET later == {i \in (view_line + 2)..Len(l.lines) :
                                  \E k \in 1..Len(l.lines[i]) : l.lines[i][k] # NoneV}
                 IN IF view_line + 2 \in later
                    THEN LET n == l.lines[view_line + 2]
                             k == CHOOSE k \in 1..Len(n) :
                                     /\ n[k] # NoneV
                                     /\ \A j \in 1..(k - 1) : n[j] = NoneV
                         IN n[k]
                    ELSE l.source_end

\* navigation::move_vertical.
move_vertical(l, c, preferred_col, direction) ==
    LET current_line == c.view_line
        target_line == Min(Max(current_line + direction, 0), SatSub(Len(l.lines), 1))
        target_col == IF preferred_col # NoneV THEN preferred_col ELSE c.column
    IN ViewPosition(target_line, target_col,
                    view_position_to_source_byte(l, target_line, target_col))

\* layout.lines.get(idx).map(|l| l.char_mappings.len()).unwrap_or(0).
LineLen(l, idx) == IF idx < Len(l.lines) THEN Len(l.lines[idx + 1]) ELSE 0

\* move_horizontal crossing to the next line only when the step goes beyond
\* the line's length.
move_horizontal_strict(l, c, direction) ==
    LET line_idx == Min(c.view_line, SatSub(Len(l.lines), 1))
        line_len == LineLen(l, line_idx)
        raw_col == Max(c.column + direction, 0)
    IN IF direction > 0 /\ raw_col > line_len /\ line_idx + 1 < Len(l.lines)
       THEN ViewPosition(line_idx + 1, 0, view_position_to_source_byte(l, line_idx + 1, 0))
       ELSE IF direction < 0 /\ c.column = 0 /\ line_idx > 0
       THEN ViewPosition(line_idx - 1, LineLen(l, line_idx - 1),
                view_position_to_source_byte(l, line_idx - 1, LineLen(l, line_idx - 1)))
       ELSE ViewPosition(line_idx, Min(raw_col, line_len),
                view_position_to_source_byte(l, line_idx, Min(raw_col, line_len)))

\* navigation::move_horizontal.
move_horizontal(l, c, direction) ==
    LET line_idx == Min(c.view_line, SatSub(Len(l.lines), 1))
        line_len == LineLen(l, line_idx)
        raw_col == Max(c.column + direction, 0)
    IN IF direction > 0 /\ raw_col >= line_len /\ line_idx + 1 < Len(l.lines)
       THEN LET next_line_idx == line_idx + 1
            IN ViewPosition(next_line_idx, 0,
                   view_position_to_source_byte(l, next_line_idx, 0))
       ELSE IF direction < 0 /\ c.column = 0 /\ line_idx > 0
       THEN LET prev_line_idx == line_idx - 1
                prev_line_len == LineLen(l, prev_line_idx)
            IN ViewPosition(prev_line_idx, prev_line_len,
                   view_position_to_source_byte(l, prev_line_idx, prev_line_len))
       ELSE LET target_col == Min(raw_col, line_len)
            IN ViewPosition(line_idx, target_col,
                   view_position_to_source_byte(l, line_idx, target_col))

\* navigation::move_line_start.
move_line_start(l, c) ==
    LET line_idx == Min(c.view_line, SatSub(Len(l.lines), 1))
    IN ViewPosition(line_idx, 0, view_position_to_source_byte(l, line_idx, 0))

\* move_line_end stopping at the last character instead of after it.
move_line_end_at_last_char(l, c) ==
    LET line_idx == Min(c.view_line, SatSub(Len(l.lines), 1))
        col == SatSub(LineLen(l, line_idx), 1)
    IN ViewPosition(line_idx, col, view_position_to_source_byte(l, line_idx, col))

\* navigation::move_line_end.
move_line_end(l, c) ==
    LET line_idx == Min(c.view_line, SatSub(Len(l.lines), 1))
        line_len == LineLen(l, line_idx)
        col == line_len
    IN ViewPosition(line_idx, col, view_position_to_source_byte(l, line_idx, col))

\* Layout::max_top_line(visible): lines.len() - visible, saturating.
max_top_line(l, visible) == SatSub(Len(l.lines), visible)

\* Layout::get_source_byte_for_line: the source byte of the line's first
\* mapped character, NoneV when the line does not exist or maps nothing.
get_source_byte_for_line(l, line) ==
    IF line >= Len(l.lines) THEN NoneV
    ELSE LET m == l.lines[line + 1]
             mapped == {k \in 1..Len(m) : m[k] # NoneV}
         IN IF mapped = {} THEN NoneV
            ELSE m[CHOOSE k \in mapped : \A j \in mapped : k <= j]

\* scroll_view without the clamp to max_top_line.
scroll_view_unclamped(l, v, line_offset) ==
    LET target == Max(v.top_view_line + line_offset, 0)
        byte == get_source_byte_for_line(l, target)
    IN [v EXCEPT !.top_view_line = target,
                 !.anchor_byte = IF byte # NoneV THEN byte ELSE @]

\* navigation::scroll_view; a viewport is its top_view_line, its anchor_byte
\* and what visible_line_count() returns.
scroll_view(l, v, line_offset) ==
    LET max_top == max_top_line(l, v.visible_line_count)
        target == Max(v.top_view_line + line_offset, 0)
        top == Min(target, max_top)
        byte == get_source_byte_for_line(l, top)
    IN [v EXCEPT !.top_view_line = top,
                 !.anchor_byte = IF byte # NoneV THEN byte ELSE @]

\* The layouts navigated: every layout of up to MaxLines lines of up to
\* MaxLineLen characters.
LineLens == UNION {[1..n -> 0..MaxLineLen] : n \in 0..MaxLines}
Layouts == {make_test_layout(lens) : lens \in LineLens}

NavCall(op, preferred_col, direction) ==
    [op |-> op, old |-> viewCursor, preferred_col |-> preferred_col,
     direction |-> direction]

NoNavCall ==
    [op |-> "none", old |-> ViewPosition(0, 0, 0), preferred_col |-> NoneV,
     direction |-> 0]

MoveVertical(preferred_col, direction) ==
    /\ viewCursor' = move_vertical(layout, viewCursor, preferred_col, direction)
    /\ navCall' = NavCall("move_vertical", preferred_col, direction)
    /\ UNCHANGED <<layout, viewport>>

MoveHorizontal(direction) ==
    /\ viewCursor' = move_horizontal(layout, viewCursor, direction)
    /\ navCall' = NavCall("move_horizontal", NoneV, direction)
    /\ UNCHANGED <<layout, viewport>>

MoveLineStart ==
    /\ viewCursor' = move_line_start(layout, viewCursor)
    /\ navCall' = NavCall("move_line_start", NoneV, 0)
    /\ UNCHANGED <<layout, viewport>>

MoveLineEnd ==
    /\ viewCursor' = move_line_end(layout, viewCursor)
    /\ navCall' = NavCall("move_line_end", NoneV, 0)
    /\ UNCHANGED <<layout, viewport>>

ScrollView(line_offset) ==
    /\ viewport' = scroll_view(layout, viewport, line_offset)
    /\ navCall' = NavCall("scroll_view", NoneV, line_offset)
    /\ UNCHANGED <<layout, viewCursor>>

\* No layout in use.
InitNavIdle ==
    /\ layout = make_test_layout(<<>>)
    /\ viewCursor = ViewPosition(0, 0, 0)
    /\ viewport = [top_view_line |-> 0, anchor_byte |-> 0, visible_line_count |-> 1]
    /\ navCall = NoNavCall

InitNav ==
    /\ layout \in Layouts
    /\ viewCursor = ViewPosition(0, 0, 0)
    /\ \E visible \in 0..MaxVisible :
           viewport = [top_view_line |-> 0, anchor_byte |-> 0, visible_line_count |-> visible]
    /\ navCall = NoNavCall

\* ------------------------------------------------------------------------
\* Position history (src/position_history.rs).  An entry is a buffer id and
\* a view position; the selection anchor is None throughout.  An absent
\* entry (Option::None) is NoEntry.
\* ------------------------------------------------------------------------
LARGE_LINE_THRESHOLD == 5
LARGE_COLUMN_THRESHOLD == 80
MaxCapacity == 2
MaxHistOps == 4

\* usize::MAX, what 0 - 1 wraps to in a release profile (the largest integer
\* of the checker stands for it: larger than any length).
UsizeMax == 2147483647

PositionEntry(buffer_id, view_line, column) ==
    [buffer_id |-> buffer_id, view_line |-> view_line, column |-> column]

NoEntry == PositionEntry(NoneV, 0, 0)

is_large_jump(from, to) ==
    LET line_delta == SatSub(Max(from.view_line, to.view_line),
                             Min(from.view_line, to.view_line))
        col_delta == SatSub(Max(from.column, to.column), Min(from.column, to.column))
    IN \/ line_delta > LARGE_LINE_THRESHOLD
       \/ (line_delta = 0 /\ col_delta > LARGE_COLUMN_THRESHOLD)

\* overflow records an arithmetic overflow met by the last operation:
\* "panic" (debug profile: the operation stopped there) or "wrap" (release
\* profile); a history is followed up to its first overflow.
with_capacity(max_entries) ==
    [entries |-> <<>>, current_index |-> NoneV, max_entries |-> max_entries,
     pending_movement |-> NoEntry, overflow |-> "none"]

\* entries.get(idx).
EntryAt(h, idx) ==
    IF idx >= 0 /\ idx < Len(h.entries) THEN h.entries[idx + 1] ELSE NoEntry

current(h) ==
    IF h.current_index = NoneV THEN NoEntry ELSE EntryAt(h, h.current_index)

can_go_forward(h) ==
    h.current_index # NoneV /\ h.current_index + 1 < Len(h.entries)

\* push that keeps the forward history.
push_keeps_forward(h, entry, profile) ==
    IF current(h) = entry THEN h
    ELSE LET pushed == Append(h.entries, entry)
             capped == IF Len(pushed) > h.max_entries THEN Tail(pushed) ELSE pushed
         IN [h EXCEPT !.entries = capped, !.current_index = Len(capped) - 1]

\* push that drops the newest entry at capacity.
push_drops_newest(h, entry, profile) ==
    LET truncated == IF h.current_index # NoneV
                     THEN SubSeq(h.entries, 1, Min(h.current_index + 1, Len(h.entries)))
                     ELSE h.entries
    IN IF current(h) = entry THEN [h EXCEPT !.entries = truncated]
       ELSE LET pushed == Append(truncated, entry)
                capped == IF Len(pushed) > h.max_entries
                          THEN SubSeq(pushed, 1, Len(pushed) - 1) ELSE pushed
            IN [h EXCEPT !.entries = capped,
                         !.current_index = IF capped = <<>> THEN NoneV
                                           ELSE Len(capped) - 1]

\* PositionHistory::push; profile is the build profile, "debug" or "release".
push(h, entry, profile) ==
    LET truncated == IF h.current_index # NoneV
                     THEN SubSeq(h.entries, 1, Min(h.current_index + 1, Len(h.entries)))
                     ELSE h.entries
    IN IF /\ h.current_index # NoneV
          /\ h.current_index < Len(truncated)
          /\ truncated[h.current_index + 1] = entry
       THEN [h EXCEPT !.entries = truncated]
       ELSE LET pushed == Append(truncated, entry)
                capped == IF Len(pushed) > h.max_entries THEN Tail(pushed) ELSE pushed
            IN IF Len(capped) = 0
               THEN IF profile = "debug"
                    THEN [h EXCEPT !.entries = capped, !.overflow = "panic"]
                    ELSE [h EXCEPT !.entries = capped, !.overflow = "wrap",
                                   !.current_index = UsizeMax]
               ELSE [h EXCEPT !.entries = capped, !.current_index = Len(capped) - 1]

commit_pending_movement(h, profile) ==
    IF h.pending_movement # NoEntry
    THEN push([h EXCEPT !.pending_movement = NoEntry], h.pending_movement, profile)
    ELSE h

record_movement(h, entry, profile) ==
    IF h.pending_movement # NoEntry
    THEN IF /\ h.pending_movement.buffer_id = entry.buffer_id
            /\ ~is_large_jump(h.pending_movement, entry)
         THEN h
         ELSE LET c == commit_pending_movement(h, profile)
              IN IF c.overflow = "panic" THEN c
                 ELSE [c EXCEPT !.pending_movement = entry]
    ELSE [h EXCEPT !.pending_movement = entry]

\* back that returns the previous entry without moving to it.
back_keeps_index(h, profile) ==
    LET c == commit_pending_movement(h, profile)
    IN IF c.overflow = "panic" \/ c.current_index = NoneV \/ c.current_index = 0
       THEN [h |-> c, ret |-> NoEntry]
       ELSE [h |-> c, ret |-> EntryAt(c, c.current_index - 1)]

\* PositionHistory::back: the history after the call and the entry returned.
back(h, profile) ==
    LET c == commit_pending_movement(h, profile)
    IN IF c.overflow = "panic" \/ c.current_index = NoneV \/ c.current_index = 0
       THEN [h |-> c, ret |-> NoEntry]
       ELSE [h |-> [c EXCEPT !.current_index = @ - 1],
             ret |-> EntryAt(c, c.current_index - 1)]

\* PositionHistory::forward.
forward(h) ==
    IF h.current_index = NoneV \/ h.current_index + 1 >= Len(h.entries)
    THEN [h |-> h, ret |-> NoEntry]
    ELSE [h |-> [h EXCEPT !.current_index = @ + 1],
          ret |-> EntryAt(h, h.current_index + 1)]

\* PositionHistory::clear.
clear(h) ==
    [h EXCEPT !.entries = <<>>, !.current_index = NoneV, !.pending_movement = NoEntry]

\* The entries recorded: two buffers; positions a small step apart
\* ((0,0), (3,0)), a large line jump away ((9,0)) and a large column jump
\* away on line 0 ((0,81)).
EntryPool ==
    {PositionEntry(b, p[1], p[2]) :
        b \in {1, 2}, p \in {<<0, 0>>, <<3, 0>>, <<9, 0>>, <<0, 81>>}}

\* One call on the history: r is the history after it and what it returned.
\* lastMove is the entry of the call before if that was record_movement.
HistStep(op, entry, r) ==
    /\ hist.overflow = "none"
    /\ histCall.n < MaxHistOps
    /\ hist' = r.h
    /\ histCall' = [op |-> op, entry |-> entry, ret |-> r.ret, old |-> hist,
                    lastMove |-> IF histCall.op = "record_movement"
                                 THEN histCall.entry ELSE NoEntry,
                    n |-> histCall.n + 1]

NoHistCall ==
    [op |-> "none", entry |-> NoEntry, ret |-> NoEntry, old |-> with_capacity(0),
     lastMove |-> NoEntry, n |-> 0]

\* PositionHistory::new().
InitHistIdle ==
    /\ hist = with_capacity(100)
    /\ histCall = NoHistCall

InitHist ==
    /\ \E n \in 0..MaxCapacity : hist = with_capacity(n)
    /\ histCall = NoHistCall

\* ------------------------------------------------------------------------
\* Server input parser (crates/fresh-editor/src/server/input_parser.rs).
\* A parser is its buffer and last_byte_time, kept as the milliseconds
\* elapsed since that instant (NoneV for None).  Bytes are their numbers.
\* ------------------------------------------------------------------------
ESC_TIMEOUT_MS == 50
max_buffer_size == 256
SleepMs == 10
MaxElapsed == 60
MaxInput == 4
MaxChunk == 2

\* The bytes fed: ESC, '[', 'O', 'A', 'a', '1'.
Bytes == {27, 91, 79, 65, 97, 49}

\* Event::Key(KeyEvent::new(code, modifiers)); a key code is its name and,
\* for Char, the character's number.
KeyEv(key, ch, modifiers) ==
    [type |-> "Key", key |-> key, ch |-> ch, modifiers |-> modifiers]

FocusLost == [type |-> "FocusLost", key |-> "", ch |-> 0, modifiers |-> {}]

\* byte_to_event over byte_to_keycode.
byte_to_event(byte) ==
    LET modifiers == IF byte < 32 /\ byte \notin {9, 10, 13, 27}
                     THEN {"CONTROL"} ELSE {}
    IN IF byte = 0 THEN KeyEv("Char", 64, modifiers)
       ELSE IF byte = 9 THEN KeyEv("Tab", 0, modifiers)
       ELSE IF byte \in {10, 13} THEN KeyEv("Enter", 0, modifiers)
       ELSE IF byte \in 1..26 THEN KeyEv("Char", 97 + byte - 1, modifiers)
       ELSE IF byte = 27 THEN KeyEv("Esc", 0, modifiers)
       ELSE IF byte \in 28..31 THEN KeyEv("Char", 92 + byte - 28, modifiers)
       ELSE IF byte = 32 THEN KeyEv("Char", 32, modifiers)
       ELSE IF byte = 127 THEN KeyEv("Backspace", 0, modifiers)
       ELSE IF byte >= 32 /\ byte < 127 THEN KeyEv("Char", byte, modifiers)
       ELSE KeyEv("Null", 0, modifiers)

Complete(event) == [r |-> "Complete", event |-> event]
Incomplete == [r |-> "Incomplete", event |-> FocusLost]
Invalid == [r |-> "Invalid", event |-> FocusLost]

\* parse_csi_sequence with parse_csi_final, for the final bytes fed here:
\* 'A' (Up; the parameters fed hold no ';', so no modifiers), 'O'
\* (FocusLost), and '[' and 'a' (no arm: Invalid).
parse_csi_sequence(bytes) ==
    IF Len(bytes) < 3 THEN Incomplete
    ELSE LET finals == {i \in 3..Len(bytes) : bytes[i] >= 64 /\ bytes[i] <= 126}
         IN IF finals = {}
            THEN IF \A i \in 3..Len(bytes) : bytes[i] >= 32 /\ bytes[i] <= 63
                 THEN Incomplete ELSE Invalid
            ELSE LET final_byte == bytes[CHOOSE i \in finals : \A j \in finals : i <= j]
                 IN IF final_byte = 65 THEN Complete(KeyEv("Up", 0, {}))
                    ELSE IF final_byte = 79 THEN Complete(FocusLost)
                    ELSE Invalid

\* parse_ss3_sequence, for the third bytes fed here ('A': Up).
parse_ss3_sequence(bytes) ==
    IF Len(bytes) < 3 THEN Incomplete
    ELSE IF bytes[3] = 65 THEN Complete(KeyEv("Up", 0, {}))
    ELSE Invalid

\* parse_escape_sequence treating ESC ESC as Alt+Esc.
parse_escape_sequence_alt_esc(bytes) ==
    IF Len(bytes) < 2 THEN Incomplete
    ELSE IF bytes[2] = 91 THEN parse_csi_sequence(bytes)
    ELSE IF bytes[2] = 79 THEN parse_ss3_sequence(bytes)
    ELSE Complete([byte_to_event(bytes[2]) EXCEPT !.modifiers = {"ALT"}])

parse_escape_sequence(bytes) ==
    IF Len(bytes) < 2 THEN Incomplete
    ELSE IF bytes[2] = 91 THEN parse_csi_sequence(bytes)
    ELSE IF bytes[2] = 79 THEN parse_ss3_sequence(bytes)
    ELSE IF bytes[2] = 27 THEN Invalid
    ELSE Complete([byte_to_event(bytes[2]) EXCEPT !.modifiers = {"ALT"}])

try_parse(bytes) ==
    IF bytes = <<>> THEN Incomplete
    ELSE IF bytes[1] = 27 THEN parse_escape_sequence(bytes)
    ELSE Complete(byte_to_event(bytes[1]))

InputParser_new == [buffer |-> <<>>, last_byte_time |-> NoneV]

\* The bytes of a buffer as individual key events.
RawEvents(buf) == [i \in 1..Len(buf) |-> byte_to_event(buf[i])]

\* InputParser::parse: the parser after the call and the events returned.
RECURSIVE parse(_, _)
parse(p, bytes) ==
    IF bytes = <<>> THEN [p |-> p, events |-> <<>>]
    ELSE LET buf == Append(p.buffer, Head(bytes))
             r == try_parse(buf)
             step ==
                 IF r.r = "Complete"
                 THEN [p |-> InputParser_new, events |-> <<r.event>>]
                 ELSE IF r.r = "Incomplete"
                 THEN IF Len(buf) > max_buffer_size
                      THEN [p |-> InputParser_new, events |-> RawEvents(buf)]
                      ELSE [p |-> [buffer |-> buf, last_byte_time |-> 0],
                            events |-> <<>>]
                 ELSE LET rest == parse(InputParser_new, Tail(buf))
                      IN [p |-> rest.p,
                          events |-> <<byte_to_event(buf[1])>> \o rest.events]
             more == parse(step.p, Tail(bytes))
         IN [p |-> more.p, events |-> step.events \o more.events]

\* flush_timeout flushing whatever is buffered, however recent.
flush_timeout_early(p) ==
    IF p.buffer = <<>> THEN [p |-> p, events |-> <<>>]
    ELSE [p |-> InputParser_new, events |-> RawEvents(p.buffer)]

\* InputParser::flush_timeout.
flush_timeout(p) ==
    IF p.buffer = <<>> THEN [p |-> p, events |-> <<>>]
    ELSE LET timed_out == p.last_byte_time # NoneV
                          /\ p.last_byte_time >= ESC_TIMEOUT_MS
         IN IF ~timed_out THEN [p |-> p, events |-> <<>>]
            ELSE [p |-> InputParser_new, events |-> RawEvents(p.buffer)]

\* The chunks a read returns: 1..MaxChunk bytes.
Chunks == UNION {[1..n -> Bytes] : n \in 1..MaxChunk}

\* A call r on the parser: parserIO keeps every byte fed and every event
\* returned since the parser was created, and whether a flush emitted any.
ParserStep(op, chunk, r) ==
    /\ parser' = r.p
    /\ parserIO' = [fed |-> parserIO.fed \o chunk,
                    emitted |-> parserIO.emitted \o r.events,
                    flushed |-> parserIO.flushed \/ (op = "flush_timeout" /\ r.events # <<>>)]
    /\ parserCall' = [op |-> op, events |-> r.events, old |-> parser]

\* Server::process_clients: a read returned bytes, which are parsed.
Parse(chunk) ==
    /\ Len(parserIO.fed) + Len(chunk) <= MaxInput
    /\ ParserStep("parse", chunk, parse(parser, chunk))

\* A call of flush_timeout.
FlushTimeout == ParserStep("flush_timeout", <<>>, flush_timeout(parser))

\* Time passes while bytes are buffered (one sleep of the server loop).
Tick ==
    /\ parser.last_byte_time # NoneV
    /\ parser.last_byte_time < MaxElapsed
    /\ parser' = [parser EXCEPT !.last_byte_time = @ + SleepMs]
    /\ UNCHANGED <<parserIO, parserCall>>

InitParser ==
    /\ parser = InputParser_new
    /\ parserIO = [fed |-> <<>>, emitted |-> <<>>, flushed |-> FALSE]
    /\ parserCall = [op |-> "none", events |-> <<>>, old |-> InputParser_new]

\* ------------------------------------------------------------------------
\* workspace.rs: the file name of a workspace.  A string is a sequence of
\* Unicode code points; a path is the string of its characters.
\* ------------------------------------------------------------------------
Slash == 47
Backslash == 92
Underscore == 95
Percent == 37

\* "root"
RootName == <<114, 111, 111, 116>>

\* char::is_ascii_alphanumeric
is_ascii_alphanumeric(c) ==
    (48 <= c /\ c <= 57) \/ (65 <= c /\ c <= 90) \/ (97 <= c /\ c <= 122)

\* The UTF-8 bytes of a code point below U+0800 (c.to_string().as_bytes()).
as_bytes(c) ==
    IF c < 128 THEN <<c>> ELSE <<192 + (c \div 64), 128 + (c % 64)>>

\* One digit of the {:02X} format.
HexDigit(n) == IF n < 10 THEN 48 + n ELSE 65 + (n - 10)

\* format!("%{:02X}", byte)
PercentByte(byte) == <<Percent, HexDigit(byte \div 16), HexDigit(byte % 16)>>

RECURSIVE PercentBytes(_)
PercentBytes(bytes) ==
    IF bytes = <<>> THEN <<>>
    ELSE PercentByte(Head(bytes)) \o PercentBytes(Tail(bytes))

\* The match of encode_path_for_filename on one character.
encode_char(c) ==
    IF c = Slash \/ c = Backslash THEN <<Underscore>>
    ELSE IF is_ascii_alphanumeric(c) THEN <<c>>
    ELSE IF c = 45 \/ c = 46 THEN <<c>>
    ELSE IF c = Underscore THEN <<Percent, 53, 70>>
    ELSE PercentBytes(as_bytes(c))

RECURSIVE EncodeChars(_)
EncodeChars(str) ==
    IF str = <<>> THEN <<>> ELSE encode_char(Head(str)) \o EncodeChars(Tail(str))

RECURSIVE trim_start_matches(_, _)
trim_start_matches(str, c) ==
    IF str # <<>> /\ Head(str) = c THEN trim_start_matches(Tail(str), c) ELSE str

RECURSIVE CollapseUnderscores(_, _)
\* The second loop of encode_path_for_filename.
CollapseUnderscores(str, last_was_underscore) ==
    IF str = <<>> THEN <<>>
    ELSE LET c == Head(str) IN
         IF c = Underscore THEN
             (IF last_was_underscore THEN <<>> ELSE <<c>>)
                 \o CollapseUnderscores(Tail(str), TRUE)
         ELSE <<c>> \o CollapseUnderscores(Tail(str), FALSE)

encode_path_for_filename(path) ==
    LET trimmed == trim_start_matches(EncodeChars(path), Underscore)
        final_result == CollapseUnderscores(trimmed, FALSE)
    IN IF final_result = <<>> THEN RootName ELSE final_result

\* The value of one hexadecimal digit, -1 when the character is none.
HexValue(c) ==
    IF 48 <= c /\ c <= 57 THEN c - 48
    ELSE IF 65 <= c /\ c <= 70 THEN c - 55
    ELSE IF 97 <= c /\ c <= 102 THEN c - 87
    ELSE -1

\* u8::from_str_radix(hex, 16) of a two-character string: the byte, or -1
\* for an Err.  A leading plus sign is accepted.
from_str_radix(hex) ==
    IF hex[1] = 43 THEN HexValue(hex[2])
    ELSE IF HexValue(hex[1]) < 0 \/ HexValue(hex[2]) < 0 THEN -1
    ELSE 16 * HexValue(hex[1]) + HexValue(hex[2])

RECURSIVE DecodeLoop(_)
\* The while loop of decode_filename_to_path.
DecodeLoop(chars) ==
    IF chars = <<>> THEN <<>>
    ELSE LET c == Head(chars)
             rest == Tail(chars)
         IN IF c = Percent THEN
                LET hex == SubSeq(rest, 1, Min(2, Len(rest)))
                    after_hex == SubSeq(rest, Len(hex) + 1, Len(rest))
                IN (IF Len(hex) = 2 /\ from_str_radix(hex) >= 0
                    THEN <<from_str_radix(hex)>> ELSE <<>>)
                   \o DecodeLoop(after_hex)
            ELSE IF c = Underscore THEN <<Slash>> \o DecodeLoop(rest)
            ELSE <<c>> \o DecodeLoop(rest)

decode_filename_to_path(encoded) ==
    IF encoded = RootName THEN <<Slash>>
    ELSE <<Slash>> \o DecodeLoop(encoded)

RECURSIVE Components(_, _)
\* Path::components of an absolute path after its root: the non-empty
\* names between separators (repeated and trailing separators are dropped).
Components(path, name) ==
    IF path = <<>> THEN (IF name = <<>> THEN <<>> ELSE <<name>>)
    ELSE IF Head(path) = Slash
         THEN (IF name = <<>> THEN <<>> ELSE <<name>>) \o Components(Tail(path), <<>>)
         ELSE Components(Tail(path), Append(name, Head(path)))

\* PartialEq of two absolute paths: equal components.
PathEq(p, q) == Components(p, <<>>) = Components(q, <<>>)

MaxPath == 5

\* Characters paths are built from: / r o t _ \ space and e-acute.
PathChars == {Slash, 114, 111, 116, Underscore, Backslash, 32, 233}

RECURSIVE StringsOfLen(_)
StringsOfLen(n) ==
    IF n = 0 THEN {<<>>}
    ELSE {Append(str, c) : str \in StringsOfLen(n - 1), c \in PathChars}

\* Absolute paths of at most MaxPath characters.
AbsolutePaths ==
    UNION {{<<Slash>> \o str : str \in StringsOfLen(n)} : n \in 0..(MaxPath - 1)}

NoWsCall == [stage |-> "none", path |-> <<>>, encoded |-> <<>>, decoded |-> <<>>]

InitWorkspaceIdle == wsCall = NoWsCall

InitWorkspace ==
    \E path \in AbsolutePaths :
        wsCall = [stage |-> "path", path |-> path, encoded |-> <<>>, decoded |-> <<>>]

EncodePath ==
    /\ wsCall.stage = "path"
    /\ wsCall' = [wsCall EXCEPT !.stage = "encoded",
                                !.encoded = encode_path_for_filename(wsCall.path)]

DecodeFilename ==
    /\ wsCall.stage = "encoded"
    /\ wsCall' = [wsCall EXCEPT !.stage = "decoded",
                                !.decoded = decode_filename_to_path(wsCall.encoded)]

\* ------------------------------------------------------------------------
\* server/runner.rs and server/protocol.rs: the handshake of a new
\* connection and the list of connected clients.
\* ------------------------------------------------------------------------
PROTOCOL_VERSION == 1

\* Protocol versions a client may announce.
MaxVersion == 2

\* Client ids handed out before the model stops accepting.
MaxClientId == 4

\* What the blocking read of the control channel gives the handshake: an
\* I/O error, end of file (no hello), a line that is no ClientControl, or
\* one ClientControl message.
ClientHello(v) == [kind |-> "Hello", protocol_version |-> v]
OtherControl(kind) == [kind |-> kind, protocol_version |-> 0]
FirstMessages ==
    {ClientHello(v) : v \in 0..MaxVersion}
        \cup {OtherControl(k) : k \in {"io_error", "eof", "invalid_json", "Resize",
                                       "Ping", "Detach", "Quit", "OpenFiles"}}

\* The I/O step of the handshake that fails, if any.
IoFailures == {"none", "write_control", "set_nonblocking", "write_data"}

\* ServerControl::VersionMismatch
VersionMismatch(protocol_version) ==
    [type |-> "version_mismatch",
     action |-> IF protocol_version > PROTOCOL_VERSION
                THEN "upgrade_server" ELSE "restart_server"]

\* ServerControl::Hello(ServerHello::new(session_id))
ServerHello == [type |-> "hello", action |-> "none"]

HandshakeErr(msg, control, data) ==
    [ok |-> FALSE, err |-> msg, control |-> control, data |-> data, id |-> 0]

ConnectedClient(client_id, control, data) ==
    [ok |-> TRUE, err |-> "none", control |-> control, data |-> data, id |-> client_id]

\* A handshake that takes the hello of any protocol version.
handle_new_connection_any_version(first, fails, client_id) ==
    IF first.kind # "Hello" THEN HandshakeErr("Expected Hello message", <<>>, <<>>)
    ELSE IF fails = "none" THEN ConnectedClient(client_id, <<ServerHello>>, <<"setup">>)
    ELSE HandshakeErr("io", <<ServerHello>>, <<>>)

\* Server::handle_new_connection: the result, with what was written to the
\* control and data channels of the connection.
handle_new_connection(first, fails, client_id) ==
    IF first.kind = "io_error" THEN HandshakeErr("io", <<>>, <<>>)
    ELSE IF first.kind = "eof" THEN HandshakeErr("No hello received", <<>>, <<>>)
    ELSE IF first.kind = "invalid_json" THEN HandshakeErr("Invalid hello", <<>>, <<>>)
    ELSE IF first.kind # "Hello" THEN HandshakeErr("Expected Hello message", <<>>, <<>>)
    ELSE IF first.protocol_version # PROTOCOL_VERSION THEN
        LET response == VersionMismatch(first.protocol_version) IN
        IF fails = "write_control" THEN HandshakeErr("io", <<response>>, <<>>)
        ELSE HandshakeErr("Version mismatch", <<response>>, <<>>)
    ELSE IF fails = "write_control" THEN HandshakeErr("io", <<ServerHello>>, <<>>)
    ELSE IF fails = "set_nonblocking" THEN HandshakeErr("io", <<ServerHello>>, <<>>)
    ELSE IF fails = "write_data" THEN HandshakeErr("io", <<ServerHello>>, <<"setup">>)
    ELSE ConnectedClient(client_id, <<ServerHello>>, <<"setup">>)

\* Server::new and the locals of Server::run.
Server_new == [clients |-> <<>>, next_client_id |-> 1, running |-> TRUE]

NoSrvCall ==
    [op |-> "none", first |-> OtherControl("eof"), fails |-> "none",
     handshake |-> HandshakeErr("none", <<>>, <<>>), old |-> Server_new]

InitServerIdle == server = Server_new /\ srvCall = NoSrvCall

\* Server::run, the accept arm: Ok(Some(conn)) and the handshake.
AcceptConnection(first, fails) ==
    /\ server.running
    /\ server.next_client_id <= MaxClientId
    /\ LET h == handle_new_connection(first, fails, server.next_client_id) IN
       /\ server' = IF h.ok
                    THEN [server EXCEPT !.clients = Append(@, h.id),
                                        !.next_client_id = @ + 1]
                    ELSE server
       /\ srvCall' = [op |-> "accept", first |-> first, fails |-> fails,
                      handshake |-> h, old |-> server]

\* The elements of seq whose index is not in drop, in order.
RemoveIndices(seq, drop) ==
    LET keep == {i \in 1..Len(seq) : i \notin drop}
        nth(k) == CHOOSE i \in keep : Cardinality({j \in keep : j < i}) = k - 1
    IN [k \in 1..Cardinality(keep) |-> seq[nth(k)]]

\* Server::process_clients: the clients whose sockets reached end of file
\* or failed are removed; no client is added.
ProcessClients(disconnected) ==
    /\ server.running
    /\ server.clients # <<>>
    /\ server' = [server EXCEPT !.clients = RemoveIndices(@, disconnected)]
    /\ srvCall' = [NoSrvCall EXCEPT !.op = "process", !.old = server]

\* Server::run after the loop: disconnect_all_clients.
Shutdown ==
    /\ server.running
    /\ server' = [server EXCEPT !.clients = <<>>, !.running = FALSE]
    /\ srvCall' = [NoSrvCall EXCEPT !.op = "shutdown", !.old = server]

\* ------------------------------------------------------------------------
\* Editor::handle_goto_line (src/editor/input.rs).  The document is a
\* sequence of single-byte lines given by their lengths; gotoDoc holds it
\* with the large-file flag (line_count() is None) and the configured
\* estimated_line_length.
\* ------------------------------------------------------------------------
\* Largest line number typed into the prompt, below the overflowing one.
MaxLineNum == 4

\* Largest offset an overflowing product is taken to wrap to.
MaxWrapped == 8

\* Values of config.editor.estimated_line_length.
EstimatedLineLengths == {1, 3}

\* Outcome of input.trim().parse::<usize>(): NoneV for Err, else the number.
LineNumInputs == {NoneV} \cup (0..MaxLineNum) \cup {UsizeMax}

\* The text of the document: lines of "x" separated by newlines.
RECURSIVE DocText(_)
DocText(lens) ==
    IF lens = <<>> THEN <<>>
    ELSE [i \in 1..Head(lens) |-> "x"]
         \o (IF Len(lens) > 1 THEN <<"\n">> ELSE <<>>)
         \o DocText(Tail(lens))

\* TextBuffer::len
buffer_len(lens) == Len(DocText(lens))

\* TextBuffer::line_col_to_position(line, 0): the offset of the line start.
line_col_to_position(lens, line) == LineOffset(lens, line)

\* line_iterator(offset, ..).current_position(): the start of the line
\* that holds the offset.
line_iterator_position(lens, offset) ==
    LET starts == {LineOffset(lens, i) : i \in 0..(Len(lens) - 1)}
    IN CHOOSE st \in starts :
           st <= offset /\ \A other \in starts : other <= offset => other <= st

\* Layout::source_byte_to_view_position: the view line and column whose
\* mapping is the byte, NoPosition when the layout maps no character to it.
source_byte_to_view_position(l, b) ==
    LET hits == {lc \in (0..(Len(l.lines) - 1)) \X (0..(MaxLineLen + 1)) :
                    /\ lc[2] < Len(l.lines[lc[1] + 1])
                    /\ l.lines[lc[1] + 1][lc[2] + 1] = b}
    IN IF hits = {} THEN NoPosition
       ELSE LET lc == CHOOSE h \in hits : \A o \in hits :
                          h[1] < o[1] \/ (h[1] = o[1] /\ h[2] <= o[2])
            IN SomePosition(ViewPosition(lc[1], lc[2], b))

\* navigation::mapping::source_to_view_pos; fallback is the position given
\* to a byte the layout does not map.
source_to_view_pos(l, source_byte, fallback) ==
    LET found == source_byte_to_view_position(l, source_byte)
    IN IF found.some THEN found.v
       ELSE ViewPosition(fallback[1], fallback[2], source_byte)

\* View positions a fallback may give.
FallbackPositions == (0..MaxLines) \X (0..1)

NoGotoCall ==
    [op |-> "none", line_num |-> NoneV, outcome |-> "none", status |-> "none",
     target_line |-> 0, actual_line |-> 0, estimated_offset |-> 0,
     clamped_offset |-> 0, source_byte |-> 0,
     new_position |-> ViewPosition(0, 0, 0)]

\* The large-file branch taking the estimated offset as it is.
goto_line_position_unclamped(doc, target_line, wrapped, l, fallback) ==
    LET est == IF target_line > UsizeMax \div doc.estimated_line_length
               THEN wrapped ELSE target_line * doc.estimated_line_length
        pos == ViewPosition(fallback[1], fallback[2], est)
    IN [actual_line |-> target_line, estimated_offset |-> est,
        clamped_offset |-> est, source_byte |-> est, new_position |-> pos,
        status |-> "estimated"]

\* handle_goto_line, from is_large_file to (new_position, status_message).
\* wrapped is what the product wraps to when it overflows.
goto_line_position(doc, target_line, wrapped, l, fallback) ==
    IF doc.large_file THEN
        LET estimated_offset ==
                IF target_line > UsizeMax \div doc.estimated_line_length
                THEN wrapped ELSE target_line * doc.estimated_line_length
            clamped_offset == Min(estimated_offset, buffer_len(doc.lens))
            source_byte == line_iterator_position(doc.lens, clamped_offset)
        IN [actual_line |-> target_line, estimated_offset |-> estimated_offset,
            clamped_offset |-> clamped_offset, source_byte |-> source_byte,
            new_position |-> source_to_view_pos(l, source_byte, fallback),
            status |-> "estimated"]
    ELSE
        LET max_line == SatSub(Len(doc.lens), 1)
            actual_line == Min(target_line, max_line)
            source_byte == line_col_to_position(doc.lens, actual_line)
        IN [actual_line |-> actual_line, estimated_offset |-> 0,
            clamped_offset |-> 0, source_byte |-> source_byte,
            new_position |-> source_to_view_pos(l, source_byte, fallback),
            status |-> IF target_line > max_line THEN "clamped" ELSE "exact"]

\* EditorState::apply of the MoveCursor event to the primary cursor.
ApplyMoveCursor(cs, new_position) ==
    [cs EXCEPT !.cursors[cs.primary_id] =
        [@ EXCEPT !.position = new_position, !.anchor = NoPosition]]

InitGotoIdle ==
    /\ gotoDoc = [lens |-> <<0>>, large_file |-> FALSE, estimated_line_length |-> 1]
    /\ gotoCall = NoGotoCall

\* Editor::handle_goto_line.  profile is the build profile, wrapped and
\* fallback the values left open by the overflow and by the layout.
GotoLine(line_num, profile, wrapped, fallback) ==
    /\ gotoCall.outcome # "panic"
    /\ logIdx < MaxLog
    /\ IF line_num = NoneV \/ line_num = 0 THEN
           /\ gotoCall' = [NoGotoCall EXCEPT
                  !.op = "goto", !.line_num = line_num, !.outcome = "rejected",
                  !.status = IF line_num = NoneV THEN "invalid" ELSE "not positive"]
           /\ UNCHANGED <<logVars, curVars, histVars>>
       ELSE LET target_line == SatSub(line_num, 1)
                overflow == /\ gotoDoc.large_file
                            /\ target_line > UsizeMax \div gotoDoc.estimated_line_length
            IN IF overflow /\ profile = "debug" THEN
                   /\ gotoCall' = [NoGotoCall EXCEPT
                          !.op = "goto", !.line_num = line_num, !.outcome = "panic",
                          !.target_line = target_line]
                   /\ UNCHANGED <<logVars, curVars, histVars>>
               ELSE LET r == goto_line_position(gotoDoc, target_line, wrapped,
                                                layout, fallback)
                        event == MoveCursorEvent(cursor, r.source_byte)
                        lg == append(log, logIdx, event)
                        st == apply_event_to_active_buffer(event, text, cursor)
                        h == record_movement(hist,
                                 PositionEntry(1, r.new_position.view_line,
                                               r.new_position.column), profile)
                    IN /\ log' = lg.log
                       /\ logIdx' = lg.logIdx
                       /\ text' = st.text
                       /\ cursor' = st.cursor
                       /\ lastCall' = Snapshot("apply_events", EventValid(event, text))
                       /\ cursors' = ApplyMoveCursor(cursors, r.new_position)
                       /\ curCall' = curCall
                       /\ hist' = h
                       /\ histCall' = histCall
                       /\ gotoCall' = [op |-> "goto", line_num |-> line_num,
                                       outcome |-> "moved", status |-> r.status,
                                       target_line |-> target_line,
                                       actual_line |-> r.actual_line,
                                       estimated_offset |-> r.estimated_offset,
                                       clamped_offset |-> r.clamped_offset,
                                       source_byte |-> r.source_byte,
                                       new_position |-> r.new_position]
    /\ UNCHANGED <<gotoDoc, layout, viewCursor, viewport, navCall>>

\* ------------------------------------------------------------------------
\* Specifications.
\* ------------------------------------------------------------------------
InitDiff == InitTree /\ InitLog /\ InitCursors /\ InitNavIdle /\ InitHistIdle /\ InitParser /\ InitWorkspaceIdle /\ InitServerIdle /\ InitGotoIdle

NextDiff ==
    \/ \E p \in 0..8, loc \in Locations, off \in 0..3, n \in 1..MaxPiece, tie \in {"L", "R"} :
           Insert(p, loc, off, n, tie) /\ UNCHANGED <<logVars, curVars, navVars, histVars, parserVars, wsVars, srvVars, gotoVars>>
    \/ \E s \in 0..8, e \in 1..9 : Delete(s, e) /\ UNCHANGED <<logVars, curVars, navVars, histVars, parserVars, wsVars, srvVars, gotoVars>>
    \/ Rebalance /\ UNCHANGED <<logVars, curVars, navVars, histVars, parserVars, wsVars, srvVars, gotoVars>>
    \/ MarkSaved /\ UNCHANGED <<logVars, curVars, navVars, histVars, parserVars, wsVars, srvVars, gotoVars>>
    \/ \E mode \in CounterModes : Diff(mode) /\ UNCHANGED <<logVars, curVars, navVars, histVars, parserVars, wsVars, srvVars, gotoVars>>

SpecDiff == InitDiff /\ [][NextDiff]_vars

\* The event log over a fixed, empty tree.
InitEvents ==
    /\ InitWorkspaceIdle /\ InitServerIdle /\ InitGotoIdle
    /\ InitLog
    /\ InitCursors
    /\ InitNavIdle
    /\ InitHistIdle
    /\ InitParser
    /\ LET t == build(<<>>, <<>>)
       IN /\ heap = t.heap
          /\ before = t.root
          /\ after = t.root
    /\ lazy = FALSE
    /\ edits = 0
    /\ lastOp = NoOp
    /\ result = NoResult

NextEvents ==
    \/ \E ev \in EventPool(cursor) : apply_events(ev) /\ UNCHANGED <<diffVars, curVars, navVars, histVars, parserVars, wsVars, srvVars, gotoVars>>
    \/ Undo /\ UNCHANGED <<diffVars, curVars, navVars, histVars, parserVars, wsVars, srvVars, gotoVars>>
    \/ Redo /\ UNCHANGED <<diffVars, curVars, navVars, histVars, parserVars, wsVars, srvVars, gotoVars>>

SpecEvents == InitEvents /\ [][NextEvents]_vars

\* The cursor collection over a fixed, empty tree and an empty log.
InitCursorOps == InitEvents

NextCursors ==
    \/ \E c \in CursorPool : Add(c) /\ UNCHANGED <<diffVars, logVars, navVars, histVars, parserVars, wsVars, srvVars, gotoVars>>
    \/ \E id \in CursorIds, c \in CursorPool :
           InsertWithId(id, c) /\ UNCHANGED <<diffVars, logVars, navVars, histVars, parserVars, wsVars, srvVars, gotoVars>>
    \/ \E id \in CursorIds, first_id \in CursorIds :
           Remove(id, first_id) /\ UNCHANGED <<diffVars, logVars, navVars, histVars, parserVars, wsVars, srvVars, gotoVars>>
    \/ \E position \in Positions, extend_selection \in BOOLEAN :
           MoveTo(position, extend_selection) /\ UNCHANGED <<diffVars, logVars, navVars, histVars, parserVars, wsVars, srvVars, gotoVars>>
    \/ \E line \in 0..0, column \in 0..1 :
           StartBlockSelection(line, column) /\ UNCHANGED <<diffVars, logVars, navVars, histVars, parserVars, wsVars, srvVars, gotoVars>>
    \/ \E anchor \in Positions : SetAnchor(anchor) /\ UNCHANGED <<diffVars, logVars, navVars, histVars, parserVars, wsVars, srvVars, gotoVars>>
    \/ \E edit_pos \in 0..1, old_len \in 0..1, new_len \in 0..1 :
           AdjustForEdit(edit_pos, old_len, new_len) /\ UNCHANGED <<diffVars, logVars, navVars, histVars, parserVars, wsVars, srvVars, gotoVars>>

SpecCursors == InitCursorOps /\ [][NextCursors]_vars

\* Navigation in a fixed layout, over an empty tree and an empty log.
InitNavOps ==
    /\ InitWorkspaceIdle /\ InitServerIdle /\ InitGotoIdle
    /\ InitLog
    /\ InitCursors
    /\ InitNav
    /\ InitHistIdle
    /\ InitParser
    /\ LET t == build(<<>>, <<>>)
       IN /\ heap = t.heap
          /\ before = t.root
          /\ after = t.root
    /\ lazy = FALSE
    /\ edits = 0
    /\ lastOp = NoOp
    /\ result = NoResult

NextNav ==
    \/ \E preferred_col \in {NoneV} \cup 0..MaxCol, direction \in {-2, -1, 1, 2} :
           MoveVertical(preferred_col, direction) /\ UNCHANGED <<diffVars, logVars, curVars, histVars, parserVars, wsVars, srvVars, gotoVars>>
    \/ \E direction \in {-1, 1} :
           MoveHorizontal(direction) /\ UNCHANGED <<diffVars, logVars, curVars, histVars, parserVars, wsVars, srvVars, gotoVars>>
    \/ MoveLineStart /\ UNCHANGED <<diffVars, logVars, curVars, histVars, parserVars, wsVars, srvVars, gotoVars>>
    \/ MoveLineEnd /\ UNCHANGED <<diffVars, logVars, curVars, histVars, parserVars, wsVars, srvVars, gotoVars>>
    \/ \E line_offset \in {-2, -1, 1, 2} :
           ScrollView(line_offset) /\ UNCHANGED <<diffVars, logVars, curVars, histVars, parserVars, wsVars, srvVars, gotoVars>>

SpecNav == InitNavOps /\ [][NextNav]_vars

\* An empty tree with no edit made and no diff taken.
EmptyTree ==
    /\ LET t == build(<<>>, <<>>)
       IN /\ heap = t.heap
          /\ before = t.root
          /\ after = t.root
    /\ lazy = FALSE
    /\ edits = 0
    /\ lastOp = NoOp
    /\ result = NoResult

\* The position history alone.
InitHistOps == EmptyTree /\ InitLog /\ InitCursors /\ InitNavIdle /\ InitHist /\ InitParser /\ InitWorkspaceIdle /\ InitServerIdle /\ InitGotoIdle

NextHist ==
    \/ \E entry \in EntryPool, bld \in {"debug", "release"} :
           /\ HistStep("record_movement", entry, [h |-> record_movement(hist, entry, bld), ret |-> NoEntry])
           /\ UNCHANGED <<diffVars, logVars, curVars, navVars, parserVars, wsVars, srvVars, gotoVars>>
    \/ \E bld \in {"debug", "release"} :
           /\ HistStep("commit_pending_movement", NoEntry, [h |-> commit_pending_movement(hist, bld), ret |-> NoEntry])
           /\ UNCHANGED <<diffVars, logVars, curVars, navVars, parserVars, wsVars, srvVars, gotoVars>>
    \/ \E entry \in EntryPool, bld \in {"debug", "release"} :
           /\ HistStep("push", entry, [h |-> push(hist, entry, bld), ret |-> NoEntry])
           /\ UNCHANGED <<diffVars, logVars, curVars, navVars, parserVars, wsVars, srvVars, gotoVars>>
    \/ \E bld \in {"debug", "release"} :
           /\ HistStep("back", NoEntry, back(hist, bld))
           /\ UNCHANGED <<diffVars, logVars, curVars, navVars, parserVars, wsVars, srvVars, gotoVars>>
    \/ HistStep("forward", NoEntry, forward(hist))
           /\ UNCHANGED <<diffVars, logVars, curVars, navVars, parserVars, wsVars, srvVars, gotoVars>>
    \/ HistStep("clear", NoEntry, [h |-> clear(hist), ret |-> NoEntry])
           /\ UNCHANGED <<diffVars, logVars, curVars, navVars, parserVars, wsVars, srvVars, gotoVars>>

SpecHist == InitHistOps /\ [][NextHist]_vars

\* The input parser alone.
InitParserOps == EmptyTree /\ InitLog /\ InitCursors /\ InitNavIdle /\ InitHistIdle /\ InitParser /\ InitWorkspaceIdle /\ InitServerIdle /\ InitGotoIdle

NextParser ==
    \/ \E chunk \in Chunks :
           Parse(chunk) /\ UNCHANGED <<diffVars, logVars, curVars, navVars, histVars, wsVars, srvVars, gotoVars>>
    \/ FlushTimeout /\ UNCHANGED <<diffVars, logVars, curVars, navVars, histVars, wsVars, srvVars, gotoVars>>
    \/ Tick /\ UNCHANGED <<diffVars, logVars, curVars, navVars, histVars, wsVars, srvVars, gotoVars>>

SpecParser == InitParserOps /\ [][NextParser]_vars

\* The parser in the server: time always passes; nothing in the server loop
\* (Server::run, process_clients) calls flush_timeout, so no fairness is
\* stated for it, nor for the arrival of bytes.
SpecParserFair ==
    SpecParser /\ WF_vars(Tick /\ UNCHANGED <<diffVars, logVars, curVars, navVars, histVars, wsVars, srvVars, gotoVars>>)

\* The workspace file name of one absolute path: encoded, then decoded.
InitWorkspaceOps ==
    EmptyTree /\ InitLog /\ InitCursors /\ InitNavIdle /\ InitHistIdle /\ InitParser /\ InitWorkspace /\ InitServerIdle /\ InitGotoIdle

NextWorkspace ==
    \/ EncodePath /\ UNCHANGED <<diffVars, logVars, curVars, navVars, histVars, parserVars, srvVars, gotoVars>>
    \/ DecodeFilename /\ UNCHANGED <<diffVars, logVars, curVars, navVars, histVars, parserVars, srvVars, gotoVars>>

SpecWorkspace == InitWorkspaceOps /\ [][NextWorkspace]_vars

\* The server: connections arrive, clients disconnect, the server stops.
InitServerOps ==
    /\ EmptyTree /\ InitLog /\ InitCursors /\ InitNavIdle /\ InitHistIdle /\ InitParser
    /\ InitWorkspaceIdle
    /\ InitServerIdle /\ InitGotoIdle

NextServer ==
    \/ \E first \in FirstMessages, fails \in IoFailures :
           AcceptConnection(first, fails)
           /\ UNCHANGED <<diffVars, logVars, curVars, navVars, histVars, parserVars, wsVars, gotoVars>>
    \/ \E disconnected \in SUBSET (1..Len(server.clients)) :
           ProcessClients(disconnected)
           /\ UNCHANGED <<diffVars, logVars, curVars, navVars, histVars, parserVars, wsVars, gotoVars>>
    \/ Shutdown /\ UNCHANGED <<diffVars, logVars, curVars, navVars, histVars, parserVars, wsVars, gotoVars>>

SpecServer == InitServerOps /\ [][NextServer]_vars

\* Goto line on a document of one or more lines, small or large.
InitGotoOps ==
    /\ EmptyTree /\ InitCursors /\ InitHistIdle /\ InitParser
    /\ InitWorkspaceIdle /\ InitServerIdle
    /\ \E lens \in LineLens \ {<<>>}, large_file \in BOOLEAN,
          estimated_line_length \in EstimatedLineLengths :
           /\ gotoDoc = [lens |-> lens, large_file |-> large_file,
                         estimated_line_length |-> estimated_line_length]
           /\ layout = make_test_layout(lens)
           /\ text = DocText(lens)
    /\ cursor = 0
    /\ log = <<>>
    /\ logIdx = 0
    /\ lastCall = NoCall
    /\ viewCursor = ViewPosition(0, 0, 0)
    /\ viewport = [top_view_line |-> 0, anchor_byte |-> 0, visible_line_count |-> 0]
    /\ navCall = NoNavCall
    /\ gotoCall = NoGotoCall

\* What the product can wrap to: drawn only for a line number that makes
\* it overflow.
WrappedOffsets(line_num) ==
    IF line_num > UsizeMax \div gotoDoc.estimated_line_length
    THEN 0..MaxWrapped ELSE {0}

NextGoto ==
    \E line_num \in LineNumInputs, profile \in {"debug", "release"},
       fallback \in FallbackPositions :
        \E wrapped \in WrappedOffsets(line_num) :
            GotoLine(line_num, profile, wrapped, fallback)
        /\ UNCHANGED <<diffVars, parserVars, wsVars, srvVars>>

SpecGoto == InitGotoOps /\ [][NextGoto]_vars

Init == InitDiff

Next == NextDiff \/ NextEvents \/ NextCursors \/ NextNav \/ NextHist \/ NextParser
            \/ NextWorkspace \/ NextServer \/ NextGoto

Spec == Init /\ [][Next]_vars

\* ------------------------------------------------------------------------
\* Reference notions used to state the properties of the diff.
\* ------------------------------------------------------------------------
\* Line feeds among the document bytes at offsets [from, to).
DocLF(d, from, to) ==
    Cardinality({i \in (from + 1)..to : Buffers[d[i][1]][d[i][2] + 1] = "LF"})

RECURSIVE LeafStarts(_, _)
\* Document offset at which each leaf of a leaf list starts.
LeafStarts(leaves, at) ==
    IF leaves = <<>> THEN <<>>
    ELSE <<at>> \o LeafStarts(Tail(leaves), at + Head(leaves).bytes)

RangesOK(ranges, len) ==
    /\ \A i \in 1..Len(ranges) :
           ranges[i].start <= ranges[i].end /\ ranges[i].end <= len
    /\ \A i \in 1..(Len(ranges) - 1) : ranges[i].end <= ranges[i + 1].start

\* The last edit was applied to the saved root itself.
SingleEdit(kind) == result.done /\ lastOp.kind = kind /\ lastOp.base = before

\* C1: after one insert of n >= 1 bytes that the tree did not refer to, at
\* document offset p, the diff is not equal and reports exactly [p .. p+n].
C1_InsertRange ==
    SingleEdit("insert") =>
        /\ ~result.equal
        /\ result.byte_ranges = <<Range(lastOp.p, lastOp.e)>>

W_C1_InsertRange ==
    /\ SingleEdit("insert")
    /\ ~IsLeaf(heap, before)
    /\ lastOp.p > 0
    /\ lastOp.p < DocLen(heap, before)
    /\ result.byte_ranges = <<Range(lastOp.p, lastOp.e)>>

\* C2: after one delete of the non-empty range [s, e), the diff is not equal
\* and reports exactly the zero-width range [s .. s].
C2_DeleteAnchor ==
    SingleEdit("delete") =>
        /\ ~result.equal
        /\ result.byte_ranges = <<Range(lastOp.p, lastOp.p)>>

W_C2_DeleteAnchor ==
    /\ SingleEdit("delete")
    /\ ~IsLeaf(heap, before)
    /\ lastOp.p > 0
    /\ lastOp.e < DocLen(heap, before)
    /\ result.byte_ranges = <<Range(lastOp.p, lastOp.p)>>

\* diff(before, rebalance(after)) with the counter of the last diff.
RebalancedDiff ==
    LET t == TreeRebalance(heap, after)
    IN diff_piece_trees(t.heap, before, t.root, result.mode)

\* C3: diff(A, B) and diff(A, rebalance(B)) report the same byte ranges and
\* the same line ranges.
C3_RebalanceSameRanges ==
    result.done =>
        /\ RebalancedDiff.byte_ranges = result.byte_ranges
        /\ RebalancedDiff.line_ranges = result.line_ranges

\* C4: the diff of a root with itself is equal, has no ranges and visits
\* one node.
C4_IdentityShortCircuit ==
    (result.done /\ before = after) =>
        /\ result.equal
        /\ result.byte_ranges = <<>>
        /\ result.line_ranges = SomeRanges(<<>>)
        /\ result.nodes_visited = 1

W_C4_IdentityShortCircuit ==
    result.done /\ before = after /\ ~IsLeaf(heap, before) /\ result.nodes_visited = 1

\* C5: equal is reported exactly when both trees describe the same sequence
\* of buffer bytes, and byte_ranges is empty exactly when equal is reported.
C5_EqualIffSameBytes ==
    result.done =>
        /\ result.equal <=> (Doc(heap, before) = Doc(heap, after))
        /\ (result.byte_ranges = <<>>) <=> result.equal

W_C5_EqualIffSameBytes ==
    /\ result.done
    /\ result.equal
    /\ before # after
    /\ Leaves(heap, before) # Leaves(heap, after)
    /\ DocLen(heap, after) > 0

AllLFKnown(h, root) ==
    \A i \in 1..Len(Leaves(h, root)) : Leaves(h, root)[i].line_feed_cnt # NoneV

\* The line range the after document gives to a byte range.
TrueLineRange(d, r) ==
    LET start_line == DocLF(d, 0, r.start)
    IN IF r.start = r.end THEN Range(start_line, start_line + 1)
       ELSE Range(start_line, start_line + DocLF(d, r.start, r.end) + 1)

\* C7: with all counts known, each reported line range starts at the number
\* of line feeds of the after document before the byte range and ends one
\* past the line feeds inside it (start + 1 for a zero-width range).
C7_LineRangesAbsolute ==
    (result.done /\ AllLFKnown(heap, after) /\ result.line_ranges.some) =>
        \A i \in 1..Len(result.byte_ranges) :
            result.line_ranges.v[i] = TrueLineRange(Doc(heap, after), result.byte_ranges[i])

\* A leaf of the after tree at or before the byte range r has an unknown count.
UnknownNeeded(h, root, r) ==
    LET ls == Leaves(h, root)
        st == LeafStarts(ls, 0)
    IN \E i \in 1..Len(ls) :
           /\ ls[i].line_feed_cnt = NoneV
           /\ ls[i].bytes > 0
           /\ st[i] < r.start \/ st[i] < r.end

\* C8: when a count needed to number a changed range is unknown, line_ranges
\* is None and byte_ranges are still reported.
C8_UnknownGivesNone ==
    (result.done /\ ~result.equal) =>
        /\ result.byte_ranges # <<>>
        /\ (\E i \in 1..Len(result.byte_ranges) :
                UnknownNeeded(heap, after, result.byte_ranges[i]))
           => ~result.line_ranges.some

\* C10: an event that cannot be applied is rejected before any mutation:
\* content and cursor are unchanged, the log is not modified and the caller
\* receives an error.
C10_InvalidEventRejected ==
    (lastCall.op = "apply_events" /\ ~lastCall.valid) =>
        /\ text = lastCall.text0
        /\ cursor = lastCall.cursor0
        /\ log = lastCall.log0
        /\ logIdx = lastCall.logIdx0
        /\ lastCall.error

\* C11: a new event appended after one or more undos discards the undone
\* events: a redo issued right after it changes neither the buffer nor the
\* cursor, and nothing is left to redo.
C11_RedoTailDiscarded ==
    (lastCall.op = "redo" /\ lastCall.prev = "apply_events" /\ lastCall.dropped > 0) =>
        /\ text = lastCall.text0
        /\ cursor = lastCall.cursor0
        /\ lastCall.logIdx0 = Len(lastCall.log0)

W_C11_RedoTailDiscarded ==
    /\ lastCall.op = "redo"
    /\ lastCall.prev = "apply_events"
    /\ lastCall.dropped > 0
    /\ lastCall.text0 # <<>>
    /\ text = lastCall.text0

\* The buffer bytes of the slice [off, off + n) of loc, in document form.
SliceDoc(loc, off, n) == [i \in 1..n |-> <<loc, off + i - 1>>]

\* C13: the tree an insert or delete yields materializes to the old content
\* with exactly that edit applied.
C13_EditIsSplice ==
    /\ lastOp.kind = "insert" =>
           Doc(heap, after) = Splice(lastOp.doc0, lastOp.p, lastOp.p,
                                     SliceDoc(lastOp.loc, lastOp.off, lastOp.e - lastOp.p))
    /\ lastOp.kind = "delete" =>
           Doc(heap, after) = Splice(lastOp.doc0, lastOp.p, lastOp.e, <<>>)

W_C13_EditIsSplice ==
    /\ lastOp.kind = "delete"
    /\ edits = 2
    /\ ~IsLeaf(heap, lastOp.base)
    /\ 0 < lastOp.p
    /\ lastOp.e < Len(lastOp.doc0)
    /\ lastOp.e - lastOp.p >= 3
    /\ Doc(heap, after) = Splice(lastOp.doc0, lastOp.p, lastOp.e, <<>>)

RECURSIVE NodeSpans(_, _, _)
\* The nodes under id as <<node, first byte, end byte>> of the document.
NodeSpans(h, id, lo) ==
    IF IsLeaf(h, id) THEN {<<id, lo, lo + h[id].bytes>>}
    ELSE {<<id, lo, lo + node_bytes(h, id)>>}
         \cup NodeSpans(h, h[id].left, lo)
         \cup NodeSpans(h, h[id].right, lo + h[id].left_bytes)

Nodes(h, id) == {t[1] : t \in NodeSpans(h, id, 0)}

\* The subtree t of the old root holds no byte touched by the last edit and
\* does not border the insertion point.
OffPath(t) ==
    IF lastOp.kind = "insert" THEN t[3] < lastOp.p \/ t[2] > lastOp.p
    ELSE t[3] <= lastOp.p \/ t[2] >= lastOp.e

\* C14: an insert or delete leaves the old root as it was - it still
\* materializes to its previous content - and every subtree off the path to
\* the edited leaves is the same node in the old and in the new root.
C14_PathCopyFrame ==
    lastOp.kind \in {"insert", "delete"} =>
        /\ Doc(heap, lastOp.base) = lastOp.doc0
        /\ \A t \in NodeSpans(heap, lastOp.base, 0) :
               OffPath(t) => t[1] \in Nodes(heap, after)

W_C14_PathCopyFrame ==
    /\ lastOp.kind = "insert"
    /\ lastOp.base # after
    /\ Doc(heap, lastOp.base) = lastOp.doc0
    /\ \E t \in NodeSpans(heap, lastOp.base, 0) :
           OffPath(t) /\ ~IsLeaf(heap, t[1]) /\ t[1] \in Nodes(heap, after)

\* The ids in the collection.
CursorKeys == DOMAIN cursors.cursors

\* C15: after any sequence of add, insert_with_id and remove the collection
\* holds at least one cursor and primary_id is the id of one of them, so
\* primary() never fails.
C15_PrimaryAlwaysExists ==
    /\ CursorKeys # {}
    /\ cursors.primary_id \in CursorKeys

W_C15_PrimaryAlwaysExists ==
    /\ curCall.op = "remove"
    /\ curCall.ids0 = {curCall.id}
    /\ curCall.id > 0
    /\ cursors.primary_id \in CursorKeys

\* What add and the removal of the only cursor do (common to both readings
\* of C16).
AddAndLastRemove ==
    /\ curCall.op = "add" =>
           /\ cursors.primary_id = curCall.id
           /\ primary(cursors) = curCall.cursor
           /\ CursorKeys = curCall.ids0 \cup {curCall.id}
    /\ (curCall.op = "remove" /\ curCall.ids0 = {curCall.id}) =>
           /\ Cardinality(CursorKeys) = 1
           /\ primary(cursors).position.view_line = 0
           /\ primary(cursors).position.column = 0
           /\ ~primary(cursors).anchor.some
           /\ ~primary(cursors).block_anchor.some

\* The primary was removed while other cursors remained.
PrimaryRemoved ==
    /\ curCall.op = "remove"
    /\ curCall.id = curCall.primary0
    /\ curCall.ids0 \ {curCall.id} # {}

\* The first of a set of cursor ids, in the order the ids were handed out.
FirstOf(ids) == CHOOSE i \in ids : \A j \in ids : i <= j

\* C16 as stated: add makes the added cursor the primary; removing the
\* primary while others remain makes the first remaining cursor the primary;
\* removing the only cursor leaves one cursor at view (0,0) with no selection.
C16_FirstRemainingBecomesPrimary ==
    /\ AddAndLastRemove
    /\ PrimaryRemoved => cursors.primary_id = FirstOf(curCall.ids0 \ {curCall.id})

\* C16 amended: removing the primary while others remain makes one of the
\* remaining cursors the primary - which one is not determined.
C16_SomeRemainingBecomesPrimary ==
    /\ AddAndLastRemove
    /\ PrimaryRemoved =>
           /\ cursors.primary_id \in curCall.ids0 \ {curCall.id}
           /\ CursorKeys = curCall.ids0 \ {curCall.id}

W_C16_SomeRemainingBecomesPrimary ==
    /\ PrimaryRemoved
    /\ Cardinality(CursorKeys) = 2
    /\ cursors.primary_id # FirstOf(CursorKeys)

\* C17: move_to(pos, true) sets the anchor to the position before the move
\* only when there was no anchor and keeps an existing anchor; move_to(pos,
\* false) in Block mode clears block_anchor and returns to Normal mode; the
\* position always becomes pos.
C17_MoveTo ==
    curCall.op = "move_to" =>
        /\ primary(cursors).position = curCall.position
        /\ curCall.extend =>
               primary(cursors).anchor =
                   IF curCall.old.anchor.some THEN curCall.old.anchor
                   ELSE SomePosition(curCall.old.position)
        /\ (~curCall.extend /\ curCall.old.selection_mode = "Block") =>
               /\ primary(cursors).selection_mode = "Normal"
               /\ ~primary(cursors).block_anchor.some

W_C17_MoveTo ==
    /\ curCall.op = "move_to"
    /\ curCall.extend
    /\ curCall.old.anchor.some
    /\ curCall.old.anchor.v # curCall.old.position
    /\ primary(cursors).anchor = curCall.old.anchor
    /\ primary(cursors).position # curCall.old.position

\* C18: with deselect_on_move false, a movement in Normal mode that does not
\* extend the selection leaves the anchor unchanged.
C18_StickyMarkKeepsAnchor ==
    (/\ curCall.op = "move_to"
     /\ ~curCall.extend
     /\ ~curCall.old.deselect_on_move
     /\ curCall.old.selection_mode = "Normal") =>
        primary(cursors).anchor = curCall.old.anchor

\* C19: after an insert of new_len bytes before a cursor that carries a
\* source byte, the cursor is at that source byte plus new_len.
C19_CursorFollowsInsert ==
    (/\ curCall.op = "adjust_for_edit"
     /\ curCall.old_len = 0
     /\ curCall.new_len > 0
     /\ curCall.old.position.source_byte # NoneV
     /\ curCall.edit_pos < curCall.old.position.source_byte) =>
        primary(cursors).position.source_byte
            = curCall.old.position.source_byte + curCall.new_len

\* C20: on a non-empty layout move_vertical returns a view_line within
\* [0, lines.len() - 1] and a column equal to the preferred column clamped to
\* the length of the target line, so never beyond that length.
C20_MoveVerticalClamped ==
    (navCall.op = "move_vertical" /\ Len(layout.lines) > 0) =>
        /\ viewCursor.view_line \in 0..(Len(layout.lines) - 1)
        /\ viewCursor.view_line < Len(layout.lines) =>
               LET len == Len(layout.lines[viewCursor.view_line + 1])
                   preferred == IF navCall.preferred_col # NoneV
                                THEN navCall.preferred_col ELSE navCall.old.column
               IN /\ viewCursor.column = Min(preferred, len)
                  /\ viewCursor.column <= len

\* The cursor before the last navigation call was on a line of the layout,
\* at a column not beyond its end.
OldInBounds ==
    /\ navCall.old.view_line < Len(layout.lines)
    /\ navCall.old.column <= LineLen(layout, navCall.old.view_line)

\* The parts of C21 common to both readings: a step left from column 0 of a
\* line other than the first ascends to the end of the previous line, and
\* from any other column but 0 it decrements the column.
HorizontalLeft ==
    (navCall.op = "move_horizontal" /\ navCall.direction = -1 /\ OldInBounds) =>
        LET line == navCall.old.view_line
            c == navCall.old.column
        IN /\ (c = 0 /\ line > 0) =>
                  /\ viewCursor.view_line = line - 1
                  /\ viewCursor.column = LineLen(layout, line - 1)
           /\ c > 0 =>
                  /\ viewCursor.view_line = line
                  /\ viewCursor.column = c - 1

\* C21 as stated: a step right from column c of a line of length L stays on
\* the line at column c + 1 whenever c + 1 <= L, and descends to
\* (view_line + 1, 0) only when the step would pass the end of the line and a
\* next line exists; a step left ascends or decrements.
C21_HorizontalStaysUpToLength ==
    /\ HorizontalLeft
    /\ (navCall.op = "move_horizontal" /\ navCall.direction = 1 /\ OldInBounds) =>
           LET line == navCall.old.view_line
               c == navCall.old.column
               L == LineLen(layout, line)
           IN /\ c + 1 <= L =>
                     /\ viewCursor.view_line = line
                     /\ viewCursor.column = c + 1
              /\ viewCursor.view_line # line =>
                     /\ c + 1 > L
                     /\ line + 1 < Len(layout.lines)
                     /\ viewCursor.view_line = line + 1
                     /\ viewCursor.column = 0

\* C21 amended: a step right stays on the line at column c + 1 when
\* c + 1 < L, or when c + 1 = L on the last line; it descends to
\* (view_line + 1, 0) when c + 1 >= L and a next line exists, and stays at
\* column L at the end of the last line.  A step left from (0, 0) stays.
C21_HorizontalCrossesAtLength ==
    /\ HorizontalLeft
    /\ (navCall.op = "move_horizontal" /\ OldInBounds) =>
           LET line == navCall.old.view_line
               c == navCall.old.column
               L == LineLen(layout, line)
               last == line + 1 = Len(layout.lines)
           IN /\ (navCall.direction = 1 /\ c + 1 >= L /\ ~last) =>
                     /\ viewCursor.view_line = line + 1
                     /\ viewCursor.column = 0
              /\ (navCall.direction = 1 /\ (c + 1 < L \/ last)) =>
                     /\ viewCursor.view_line = line
                     /\ viewCursor.column = Min(c + 1, L)
              /\ (navCall.direction = -1 /\ c = 0 /\ line = 0) =>
                     /\ viewCursor.view_line = 0
                     /\ viewCursor.column = 0

W_C21_HorizontalCrossesAtLength ==
    /\ navCall.op = "move_horizontal"
    /\ navCall.direction = 1
    /\ OldInBounds
    /\ navCall.old.column > 0
    /\ navCall.old.column + 1 = LineLen(layout, navCall.old.view_line)
    /\ viewCursor.view_line = navCall.old.view_line + 1
    /\ viewCursor.column = 0

\* C22: move_line_start returns column 0 and move_line_end the number of
\* characters of the view line (the position after its last character), both
\* on the cursor's own view line.
C22_LineStartAndEnd ==
    /\ (navCall.op = "move_line_start" /\ navCall.old.view_line < Len(layout.lines)) =>
           /\ viewCursor.view_line = navCall.old.view_line
           /\ viewCursor.column = 0
    /\ (navCall.op = "move_line_end" /\ navCall.old.view_line < Len(layout.lines)) =>
           /\ viewCursor.view_line = navCall.old.view_line
           /\ viewCursor.column = Len(layout.lines[navCall.old.view_line + 1])

W_C22_LineStartAndEnd ==
    /\ navCall.op = "move_line_end"
    /\ navCall.old.view_line = 1
    /\ navCall.old.column = 0
    /\ viewCursor.view_line = 1
    /\ viewCursor.column = 2

\* C23: after any sequence of scroll_view calls top_view_line lies within
\* [0, max_top_line], and after each call anchor_byte is the source byte of
\* the new top line whenever that line has one.
C23_ScrollClamped ==
    /\ viewport.top_view_line >= 0
    /\ viewport.top_view_line <= max_top_line(layout, viewport.visible_line_count)
    /\ (/\ navCall.op = "scroll_view"
        /\ get_source_byte_for_line(layout, viewport.top_view_line) # NoneV) =>
           viewport.anchor_byte = get_source_byte_for_line(layout, viewport.top_view_line)

W_C23_ScrollClamped ==
    /\ navCall.op = "scroll_view"
    /\ navCall.direction = 2
    /\ viewport.top_view_line = 1
    /\ max_top_line(layout, viewport.visible_line_count) = 1
    /\ viewport.anchor_byte > 0

\* The entries of the history before the last call, up to its current one
\* (what truncate(current_idx + 1) leaves).
OldUpToCurrent ==
    IF histCall.old.current_index = NoneV THEN histCall.old.entries
    ELSE SubSeq(histCall.old.entries, 1, histCall.old.current_index + 1)

\* C25: a run of consecutive small movements in one buffer adds no history
\* entry while it lasts; when a large jump or a buffer change ends the run,
\* exactly one entry is committed, and it is the last position of the run.
\* (A movement counts as small or large here only when it is so from the
\* start of the run and from the position before it alike; the history has
\* room and holds neither end of the run as its current entry.)
C25_RunCommitsLastPosition ==
    (/\ histCall.op = "record_movement"
     /\ histCall.lastMove # NoEntry
     /\ histCall.old.pending_movement # NoEntry
     /\ Len(OldUpToCurrent) < histCall.old.max_entries
     /\ current(histCall.old) \notin {histCall.lastMove, histCall.old.pending_movement}) =>
        LET start == histCall.old.pending_movement
            last == histCall.lastMove
            to == histCall.entry
            small == /\ to.buffer_id = start.buffer_id
                     /\ ~is_large_jump(start, to)
                     /\ ~is_large_jump(last, to)
            large == \/ to.buffer_id # start.buffer_id
                     \/ (is_large_jump(start, to) /\ is_large_jump(last, to))
        IN /\ small => hist.entries = histCall.old.entries
           /\ large => /\ hist.entries = Append(OldUpToCurrent, last)
                       /\ current(hist) = last

\* What forward does, and what back does with no movement pending when the
\* current entry is not the oldest (common to both readings of C26).
ForwardAndPlainBack ==
    /\ histCall.op = "forward" =>
           LET idx == histCall.old.current_index
           IN IF idx = NoneV \/ idx + 1 >= Len(histCall.old.entries)
              THEN histCall.ret = NoEntry /\ hist = histCall.old
              ELSE /\ histCall.ret = histCall.old.entries[idx + 2]
                   /\ current(hist) = histCall.ret
                   /\ hist.entries = histCall.old.entries
    /\ (/\ histCall.op = "back"
        /\ histCall.old.pending_movement = NoEntry
        /\ histCall.old.current_index # NoneV
        /\ histCall.old.current_index > 0) =>
           /\ histCall.ret = histCall.old.entries[histCall.old.current_index]
           /\ current(hist) = histCall.ret
           /\ hist.entries = histCall.old.entries

PushPost ==
    /\ current(hist) = histCall.entry
    /\ ~can_go_forward(hist)
    /\ current(histCall.old) = histCall.entry => hist.entries = OldUpToCurrent
    /\ Len(hist.entries) <= Len(OldUpToCurrent) + 1

PushExceeds ==
    /\ histCall.op = "push"
    /\ current(histCall.old) # histCall.entry
    /\ Len(OldUpToCurrent) + 1 > histCall.old.max_entries

Escape == KeyEv("Esc", 0, {})

\* The bytes fed so far, parsed by one call on a new parser.
OneChunk == parse(InputParser_new, parserIO.fed)

\* C29: as long as no timeout flush has emitted anything, (a) a lone ESC has
\* produced no event and waits in the buffer; (b) when the byte after a
\* first ESC is another ESC, the first is emitted as the Escape key without
\* modifiers, followed by the events of what the second ESC starts; (c) the
\* events emitted, and the bytes left waiting, are those of parsing all the
\* bytes in one chunk, however they were split.
C29_EscEscAndChunks ==
    ~parserIO.flushed =>
        /\ parserIO.fed = <<27>> =>
               parserIO.emitted = <<>> /\ parser.buffer = <<27>>
        /\ (Len(parserIO.fed) >= 2 /\ parserIO.fed[1] = 27 /\ parserIO.fed[2] = 27) =>
               parserIO.emitted =
                   <<Escape>> \o parse(InputParser_new, Tail(parserIO.fed)).events
        /\ parserIO.emitted = OneChunk.events
        /\ parser.buffer = OneChunk.p.buffer

\* ESC ESC [ A fed in two chunks, the second ESC arriving with the first.
W_C29_EscEscAndChunks ==
    /\ ~parserIO.flushed
    /\ parserIO.fed = <<27, 27, 91, 65>>
    /\ parserCall.op = "parse"
    /\ parserCall.old.buffer = <<27>>
    /\ parserIO.emitted = <<Escape, KeyEv("Up", 0, {})>>
    /\ parser.buffer = <<>>

EscBytes(s) == Cardinality({i \in 1..Len(s) : s[i] = 27})

EscKeys(evs) == Cardinality({i \in 1..Len(evs) : evs[i] = Escape})

\* What flush_timeout may do: it emits and empties the buffer only when 50
\* ms have passed since the last byte, then emitting every buffered byte as
\* its own key event; called earlier it emits nothing and leaves the buffer
\* as it was.  And no ESC byte is delivered as an Escape key twice.
FlushContract ==
    /\ parserCall.op = "flush_timeout" =>
           LET old == parserCall.old
           IN /\ (parserCall.events # <<>> \/ parser.buffer # old.buffer) =>
                     old.last_byte_time >= ESC_TIMEOUT_MS
              /\ old.last_byte_time < ESC_TIMEOUT_MS =>
                     parserCall.events = <<>> /\ parser.buffer = old.buffer
              /\ (old.buffer # <<>> /\ old.last_byte_time >= ESC_TIMEOUT_MS) =>
                     /\ parserCall.events = RawEvents(old.buffer)
                     /\ parser.buffer = <<>>
    /\ EscKeys(parserIO.emitted) + EscBytes(parser.buffer) <= EscBytes(parserIO.fed)

\* A lone ESC waits after n bytes were fed.
EscWaits(n) == parser.buffer = <<27>> /\ Len(parserIO.fed) = n

\* The waiting ESC was delivered as the Escape key, or was not standalone.
EscSettled(n) ==
    \/ Len(parserIO.fed) > n
    \/ /\ parser.buffer = <<>>
       /\ parserIO.emitted # <<>>
       /\ parserIO.emitted[Len(parserIO.emitted)] = Escape

StandaloneEscDelivered == \A n \in 0..(MaxInput + 1) : EscWaits(n) ~> EscSettled(n)

FlushCalled ==
    WF_vars(FlushTimeout /\ UNCHANGED <<diffVars, logVars, curVars, navVars, histVars, wsVars, srvVars, gotoVars>>)

C38_RightThenLeftReturns ==
    (/\ navCall.op = "move_horizontal"
     /\ navCall.direction = 1
     /\ OldInBounds
     /\ ~(/\ navCall.old.view_line + 1 = Len(layout.lines)
          /\ navCall.old.column = LineLen(layout, navCall.old.view_line))) =>
        LET back_again == move_horizontal(layout, viewCursor, -1)
        IN /\ back_again.view_line = navCall.old.view_line
           /\ back_again.column = navCall.old.column

\* ------------------------------------------------------------------------
\* Fresh cursor ids.
\* ------------------------------------------------------------------------
\* C39: after any sequence of add, insert_with_id and remove, the id that add
\* would return (next_id) is not in the collection; an add has returned an id
\* that was not in the collection, so it overwrote no cursor and the
\* collection grew by exactly that one id.
C39_AddReturnsFreshId ==
    /\ cursors.next_id \notin DOMAIN cursors.cursors
    /\ curCall.op = "add" =>
           /\ curCall.id \notin curCall.ids0
           /\ DOMAIN cursors.cursors = curCall.ids0 \cup {curCall.id}
           /\ Cardinality(DOMAIN cursors.cursors) = Cardinality(curCall.ids0) + 1
           /\ cursors.cursors[curCall.id] = curCall.cursor

\* An add after an add and the removal of cursor 0.
W_C39_AddReturnsFreshId ==
    /\ curCall.op = "add"
    /\ curCall.n = 3
    /\ curCall.ids0 = {1}
    /\ curCall.id = 2
    /\ DOMAIN cursors.cursors = {1, 2}

\* ------------------------------------------------------------------------
\* Pending movement and navigation.
\* ------------------------------------------------------------------------
\* C34: a pending coalesced movement is committed before a navigation
\* request takes effect, for back and for forward: after either call no
\* movement is pending, and a movement that was pending before the call has
\* been pushed (it is an entry of the history, unless the history holds no
\* entry at all).
C34_NavigationCommitsPending ==
    histCall.op \in {"back", "forward"} =>
        /\ hist.pending_movement = NoEntry
        /\ (histCall.old.pending_movement # NoEntry /\ hist.max_entries > 0) =>
               \E i \in 1..Len(hist.entries) :
                   hist.entries[i] = histCall.old.pending_movement

\* ------------------------------------------------------------------------
\* The anchor range of a pure removal.
\* ------------------------------------------------------------------------
\* The last diff compared different trees and its scan produced no range.
ScanFoundNothing ==
    /\ result.done
    /\ before # after
    /\ ~result.equal
    /\ LET c == CollectedSpans(heap, before, after)
           prefix == common_prefix_bytes(c.before_spans, c.after_spans)
           suffix == common_suffix_bytes(c.before_spans, c.after_spans, prefix)
       IN scanned_ranges(c.before_spans, c.after_spans, prefix, suffix) = <<>>

\* The after document is the before document without the k bytes at x.
RemovedAt(x) ==
    LET b == Doc(heap, before)
        a == Doc(heap, after)
        k == Len(b) - Len(a)
    IN /\ k > 0
       /\ x <= Len(a)
       /\ a = SubSeq(b, 1, x) \o SubSeq(b, x + k + 1, Len(b))

SharedNodes == Nodes(heap, before) \cap Nodes(heap, after)

RECURSIVE CollectOpaque(_, _, _)
\* Nodes counted by a full leaf collection under node when every node of
\* opaque is taken as a leaf.
CollectOpaque(h, node, opaque) ==
    IF IsLeaf(h, node) \/ node \in opaque THEN 1
    ELSE 1 + CollectOpaque(h, h[node].left, opaque)
           + CollectOpaque(h, h[node].right, opaque)

RECURSIVE WalkOpaque(_, _, _, _)
\* Nodes counted by the parallel walk when every node of opaque is taken as
\* a leaf: what the walk costs if the inside of those subtrees is never
\* looked at, whatever their size.
WalkOpaque(h, b, a, opaque) ==
    IF b = a THEN 2
    ELSE IF /\ ~IsLeaf(h, b) /\ b \notin opaque
            /\ ~IsLeaf(h, a) /\ a \notin opaque
    THEN 2 + WalkOpaque(h, h[b].left, h[a].left, opaque)
           + WalkOpaque(h, h[b].right, h[a].right, opaque)
    ELSE 2 + CollectOpaque(h, b, opaque) + CollectOpaque(h, a, opaque)

WholeLeafRemoved ==
    /\ lastOp.kind = "delete"
    /\ \E t \in NodeSpans(heap, lastOp.base, 0) :
           /\ IsLeaf(heap, t[1])
           /\ t[2] < t[3]
           /\ lastOp.p <= t[2]
           /\ t[3] <= lastOp.e

RECURSIVE IsSubsequence(_, _)
\* u can be obtained from d by dropping elements (order kept).
IsSubsequence(u, d) ==
    IF u = <<>> THEN TRUE
    ELSE IF d = <<>> THEN FALSE
    ELSE IF Head(u) = Head(d) THEN IsSubsequence(Tail(u), Tail(d))
    ELSE IsSubsequence(u, Tail(d))

\* Offsets of the document d that lie in none of the ranges.
UnreportedOffsets(d, ranges) ==
    {i \in 0..(Len(d) - 1) :
        \A k \in 1..Len(ranges) : ~(ranges[k].start <= i /\ i < ranges[k].end)}

RECURSIVE UnreportedBytes(_, _, _)
\* The bytes of d at the unreported offsets from offset i on, in order.
UnreportedBytes(d, ranges, i) ==
    IF i >= Len(d) THEN <<>>
    ELSE (IF i \in UnreportedOffsets(d, ranges) THEN <<d[i + 1]>> ELSE <<>>)
         \o UnreportedBytes(d, ranges, i + 1)

\* C37: the bytes of the after document outside every reported byte range
\* are bytes of the before document (same buffer location and offset), in
\* the same relative order.
C37_UnreportedBytesUnchanged ==
    result.done =>
        IsSubsequence(UnreportedBytes(Doc(heap, after), result.byte_ranges, 0),
                      Doc(heap, before))

W_C37_UnreportedBytesUnchanged ==
    /\ result.done
    /\ ~result.equal
    /\ Len(result.byte_ranges) >= 2
    /\ \E i \in UnreportedOffsets(Doc(heap, after), result.byte_ranges) :
           /\ result.byte_ranges[1].end <= i
           /\ i < result.byte_ranges[2].start
    /\ Doc(heap, after)[1] # Doc(heap, before)[1]
    /\ IsSubsequence(UnreportedBytes(Doc(heap, after), result.byte_ranges, 0),
                     Doc(heap, before))

\* C31: for every absolute path p, decoding the encoded file name of p gives
\* back p (so two different paths never get the same file name).
C31_EncodeDecodeRoundTrip ==
    wsCall.stage = "decoded" => PathEq(wsCall.decoded, wsCall.path)

\* The accepted connection was pushed onto the client list.
Registered ==
    /\ Len(server.clients) = Len(srvCall.old.clients) + 1
    /\ server.clients[Len(server.clients)] = srvCall.old.next_client_id

\* C35: a connection is registered only when its first control message is a
\* Hello of the server's protocol version; a Hello of another version is
\* answered with VersionMismatch and never registered; any other first
\* message is rejected without registering and without a reply.
C35_HandshakeGatesRegistration ==
    srvCall.op = "accept" =>
        LET first == srvCall.first IN
        /\ Registered =>
               first.kind = "Hello" /\ first.protocol_version = PROTOCOL_VERSION
        /\ ~Registered => server.clients = srvCall.old.clients
        /\ (first.kind = "Hello" /\ first.protocol_version # PROTOCOL_VERSION) =>
               /\ ~Registered
               /\ Len(srvCall.handshake.control) = 1
               /\ srvCall.handshake.control[1].type = "version_mismatch"
        /\ first.kind # "Hello" =>
               /\ ~Registered
               /\ srvCall.handshake.control = <<>>

\* A server that holds a registered client refuses a Hello of a newer
\* protocol version: VersionMismatch is written and the list is unchanged.
W_C35_HandshakeGatesRegistration ==
    /\ srvCall.op = "accept"
    /\ srvCall.old.clients # <<>>
    /\ srvCall.first.kind = "Hello"
    /\ srvCall.first.protocol_version > PROTOCOL_VERSION
    /\ srvCall.handshake.control = <<VersionMismatch(srvCall.first.protocol_version)>>
    /\ server.clients = srvCall.old.clients

\* The view position is a position of the layout.
InLayout(l, pos) ==
    /\ pos.view_line < Len(l.lines)
    /\ pos.column <= Len(l.lines[pos.view_line + 1])

\* C36: Goto line never places the cursor outside the document: a target
\* line beyond the last line is clamped to the last line, and in large-file
\* mode the estimated byte offset is clamped to the buffer length before it
\* is mapped to a view position.
C36_GotoLineStaysInDocument ==
    (gotoCall.op = "goto" /\ gotoCall.outcome = "moved") =>
        LET lens == gotoDoc.lens
            pos == primary(cursors).position
        IN /\ pos = gotoCall.new_position
           /\ pos.source_byte = gotoCall.source_byte
           /\ pos.source_byte <= buffer_len(lens)
           /\ cursor = pos.source_byte
           /\ \E line \in 0..(Len(lens) - 1) : pos.source_byte = LineOffset(lens, line)
           /\ ~gotoDoc.large_file =>
                  /\ gotoCall.actual_line = Min(gotoCall.target_line, Len(lens) - 1)
                  /\ pos.source_byte = LineOffset(lens, gotoCall.actual_line)
           /\ gotoDoc.large_file =>
                  /\ gotoCall.clamped_offset <= buffer_len(lens)
                  /\ pos.source_byte <= gotoCall.clamped_offset
           /\ source_byte_to_view_position(layout, pos.source_byte).some =>
                  /\ InLayout(layout, pos)
                  /\ pos.column = 0
                  /\ view_position_to_source_byte(layout, pos.view_line, pos.column)
                         = pos.source_byte

\* Both clamps at work: a line number past the last line of a small
\* document of two lines, or an estimated offset past the end of a large one.
W_C36_GotoLineStaysInDocument ==
    /\ gotoCall.op = "goto"
    /\ gotoCall.outcome = "moved"
    /\ Len(gotoDoc.lens) = 2
    /\ source_byte_to_view_position(layout, gotoCall.source_byte).some
    /\ primary(cursors).position = ViewPosition(1, 0, LineOffset(gotoDoc.lens, 1))
    /\ IF gotoDoc.large_file
       THEN gotoCall.estimated_offset > buffer_len(gotoDoc.lens)
       ELSE gotoCall.target_line > 1

====
